---- MODULE Spec2Model ----
(***************************************************************************)
(* Stamp placement engine of stampwise: PDFProcessor.find_whitest_space    *)
(* (src/server.py) as a state machine.  A page raster is a rectilinear     *)
(* grayscale image (background, ink bands along the page edges, isolated   *)
(* ink blocks, light grey patches); masks are unions of rectangles, so     *)
(* that the sums and means the code takes over a zone are exact pixel      *)
(* counts.                                                                 *)
(***************************************************************************)
EXTENDS Integers, Sequences, FiniteSets, TLC

\* ------------------------------------------------------------------------
\* Program constants (src/server.py)
\* ------------------------------------------------------------------------
min_margin == 5
max_zone_floor == 410
size_step == 5
fallback_size_step == 50
near_max_slack == 20
white_threshold_large == 95
white_threshold_small == 98
fallback_white_threshold == 95
relaxed_white_threshold == 90
MAX_ALLOWED_OVERLAP == 10
refine_radius == 5
fine_step == 2
forced_offset == 20
text_cutoff == 220
line_cutoff == 200
white_cutoff == 245
qr_cutoff == 128
min_image_area == 5000
qr_min_area == 1000
qr_max_area == 50000
qr_min_std == 40
lru_maxsize == 32

\* Python's None, for a local that otherwise holds a record; NoName for one
\* that otherwise holds a string.
None == [none |-> TRUE]

NoName == "None"

Max(a, b) == IF a >= b THEN a ELSE b
Min(a, b) == IF a <= b THEN a ELSE b

\* list(range(start, stop, -step)): descending, stop excluded.
RECURSIVE RangeDown(_, _, _)
RangeDown(start, stop, step) ==
    IF start <= stop THEN << >> ELSE <<start>> \o RangeDown(start - step, stop, step)


\* ------------------------------------------------------------------------
\* Rectangles [x0, x1) x [y0, y1) and uint8 masks of 0 / 255
\* ------------------------------------------------------------------------
Rect(x0, y0, x1, y1) == [x0 |-> x0, y0 |-> y0, x1 |-> x1, y1 |-> y1]

Empty(r) == r.x1 <= r.x0 \/ r.y1 <= r.y0

Area(r) == IF Empty(r) THEN 0 ELSE (r.x1 - r.x0) * (r.y1 - r.y0)

Meet(a, b) == Rect(Max(a.x0, b.x0), Max(a.y0, b.y0), Min(a.x1, b.x1), Min(a.y1, b.y1))

Inside(a, b) == a.x0 >= b.x0 /\ a.y0 >= b.y0 /\ a.x1 <= b.x1 /\ a.y1 <= b.y1

\* A union of rectangles, without the empty ones and the ones another covers.
Normalise(rects) ==
    LET live == {r \in rects : ~Empty(r)}
    IN  {r \in live : \A q \in live : q = r \/ ~Inside(r, q)}

\* Number of pixels of a union of rectangles.
RECURSIVE UnionArea(_)
UnionArea(rects) ==
    IF rects = {} THEN 0
    ELSE LET r == CHOOSE q \in rects : TRUE
             rest == rects \ {r}
         IN  Area(r) + UnionArea(rest)
                 - UnionArea({m \in {Meet(r, q) : q \in rest} : ~Empty(m)})

\* A mask of shape (h, w): the pixels of `rects` are set (neg = FALSE), or
\* every pixel but those of `rects` is set (neg = TRUE).
Mask(neg, rects, w, h) ==
    [neg |-> neg, rects |-> Normalise({Meet(r, Rect(0, 0, w, h)) : r \in rects}),
     w |-> w, h |-> h]

\* np.zeros((height, width), dtype=np.uint8)
NpZeros(h, w) == Mask(FALSE, {}, w, h)

\* Number of set pixels of mask[y0:y1, x0:x1] (the slice is cut to the array).
CountNonZero(mask, roi) ==
    LET cut == Meet(roi, Rect(0, 0, mask.w, mask.h))
        hit == {m \in {Meet(r, cut) : r \in mask.rects} : ~Empty(m)}
        n == UnionArea(hit)
    IN  IF mask.neg THEN Area(cut) - n ELSE n

\* np.sum(roi): every set pixel is worth 255 (the sum is taken in 64 bits).
NpSum(mask, roi) == 255 * CountNonZero(mask, roi)

\* 255 - mask
Invert(mask) == [mask EXCEPT !.neg = ~mask.neg]

\* cv2.bitwise_or.  With a complemented operand the result is exact when each
\* hole is either covered by or disjoint from the other operand, which is so
\* for every raster of the model.
BitwiseOr(a, b) ==
    LET Uncovered(holes, cover) ==
            {r \in holes : \A q \in cover : ~Inside(r, q)}
    IN  IF ~a.neg /\ ~b.neg THEN Mask(FALSE, a.rects \cup b.rects, a.w, a.h)
        ELSE IF a.neg /\ ~b.neg THEN Mask(TRUE, Uncovered(a.rects, b.rects), a.w, a.h)
        ELSE IF ~a.neg /\ b.neg THEN Mask(TRUE, Uncovered(b.rects, a.rects), a.w, a.h)
        ELSE Mask(TRUE, {Meet(r, q) : r \in a.rects, q \in b.rects}, a.w, a.h)

\* cv2.getStructuringElement(cv2.MORPH_RECT, (cols, rows)); the anchor is the
\* centre (cols // 2, rows // 2).
Kernel(cols, rows) == [cols |-> cols, rows |-> rows]

\* Erosion of one rectangle: dst(x) = min over the kernel of src(x + x' - ax);
\* pixels outside the array do not count (border value +inf).
ErodeRect(r, k, w, h) ==
    LET ax == k.cols \div 2
        ay == k.rows \div 2
    IN  Rect(IF r.x0 <= 0 THEN 0 ELSE r.x0 + ax,
             IF r.y0 <= 0 THEN 0 ELSE r.y0 + ay,
             IF r.x1 >= w THEN w ELSE r.x1 - (k.cols - 1 - ax),
             IF r.y1 >= h THEN h ELSE r.y1 - (k.rows - 1 - ay))

\* Dilation of one rectangle: dst(x) = max over the kernel of src(x + x' - ax).
DilateRect(r, k, w, h) ==
    LET ax == k.cols \div 2
        ay == k.rows \div 2
    IN  Rect(Max(0, r.x0 - (k.cols - 1 - ax)), Max(0, r.y0 - (k.rows - 1 - ay)),
             Min(w, r.x1 + ax), Min(h, r.y1 + ay))

\* cv2.erode / cv2.dilate, one iteration.  On a complemented mask the holes
\* take the dual operation.
Erode(mask, k) ==
    IF mask.neg
    THEN Mask(TRUE, {DilateRect(r, k, mask.w, mask.h) : r \in mask.rects}, mask.w, mask.h)
    ELSE Mask(FALSE, {ErodeRect(r, k, mask.w, mask.h) : r \in mask.rects}, mask.w, mask.h)

Dilate(mask, k) ==
    IF mask.neg
    THEN Mask(TRUE, {ErodeRect(r, k, mask.w, mask.h) : r \in mask.rects}, mask.w, mask.h)
    ELSE Mask(FALSE, {DilateRect(r, k, mask.w, mask.h) : r \in mask.rects}, mask.w, mask.h)

\* cv2.morphologyEx(src, cv2.MORPH_OPEN / cv2.MORPH_CLOSE, kernel)
MorphOpen(mask, k) == Dilate(Erode(mask, k), k)

MorphClose(mask, k) == Erode(Dilate(mask, k), k)

\* ------------------------------------------------------------------------
\* The page raster (the `image` argument, a uint8 array of shape
\* (height, width)).  Its pixels are bg, except: ink (0) in the bands of
\* thickness left / top / right / bottom along the page edges and in the
\* isolated rectangles `blocks`; light grey (230) in the rectangles `grey`.
\* Blocks and grey patches lie in the white interior, at least 3 px from the
\* ink and from each other; a raster with bg # 255 is uniform.
\* ------------------------------------------------------------------------
shade == [white |-> 255, grey |-> 230, ink |-> 0]

Image(w, h, bg, left, top, right, bottom, blocks, grey) ==
    [width |-> w, height |-> h, bg |-> bg, left |-> left, top |-> top,
     right |-> right, bottom |-> bottom, blocks |-> blocks, grey |-> grey]

Uniform(w, h, bg) == Image(w, h, bg, 0, 0, 0, 0, {}, {})

Page(image) == Rect(0, 0, image.width, image.height)

\* The part of the page the bands leave.
Interior(image) ==
    Rect(image.left, image.top, image.width - image.right, image.height - image.bottom)

Bands(image) ==
    Normalise({Rect(0, 0, image.left, image.height),
               Rect(0, 0, image.width, image.top),
               Rect(image.width - image.right, 0, image.width, image.height),
               Rect(0, image.height - image.bottom, image.width, image.height)})

\* The painted rectangles with their intensity.
Layers(image) ==
    {[rect |-> r, v |-> shade.ink] : r \in Bands(image) \cup image.blocks}
        \cup {[rect |-> r, v |-> shade.grey] : r \in image.grey}

\* cv2.threshold(image, t, 255, cv2.THRESH_BINARY): 255 where image > t.
Threshold(image, t) ==
    IF image.bg > t
    THEN Mask(TRUE, {l.rect : l \in {m \in Layers(image) : m.v <= t}},
              image.width, image.height)
    ELSE Mask(FALSE, {l.rect : l \in {m \in Layers(image) : m.v > t}},
              image.width, image.height)

\* Pixels of image[roi] per intensity: <<ink, grey, white>>.
PixelCounts(image, roi) ==
    LET cut == Meet(roi, Page(image))
        n == Area(cut)
        In(rects) == UnionArea({m \in {Meet(r, cut) : r \in rects} : ~Empty(m)})
        ni == IF image.bg = shade.ink THEN n ELSE In(Bands(image) \cup image.blocks)
        ng == IF image.bg = shade.grey THEN n ELSE In(image.grey)
    IN  <<ni, ng, n - ni - ng>>

\* np.std(roi) > s.  With n pixels of values v_i, n^2 * var is the sum over
\* the pairs of intensities of n_i * n_j * (v_i - v_j)^2; the comparison is
\* carried out on quotients and remainders by n to stay within 32 bits.
SquaredGap(a, b) == (a - b) * (a - b)

\* q + r / n > s * s * n
QuotientAbove(q, r, n, s) ==
    q + r \div n > s * s * n \/ (q + r \div n = s * s * n /\ r % n > 0)

\* The pairs ink-grey, ink-white, grey-white, n pixels in all.
SpreadAbove(ig, iw, gw, n, s) ==
    /\ n > 0
    /\ QuotientAbove(SquaredGap(shade.ink, shade.grey) * (ig \div n)
                         + SquaredGap(shade.ink, shade.white) * (iw \div n)
                         + SquaredGap(shade.grey, shade.white) * (gw \div n),
                     SquaredGap(shade.ink, shade.grey) * (ig % n)
                         + SquaredGap(shade.ink, shade.white) * (iw % n)
                         + SquaredGap(shade.grey, shade.white) * (gw % n),
                     n, s)

CountsStdAbove(c, s) ==
    SpreadAbove(c[1] * c[2], c[1] * c[3], c[2] * c[3], c[1] + c[2] + c[3], s)

StdAbove(image, roi, s) == CountsStdAbove(PixelCounts(image, roi), s)

\* ------------------------------------------------------------------------
\* Detectors (find_whitest_space, mask construction)
\* ------------------------------------------------------------------------

\* The text detections without the protection zone dilated around them.
TextMaskUndilated(image) ==
    LET inverted == Invert(Threshold(image, text_cutoff))
    IN  BitwiseOr(BitwiseOr(MorphOpen(inverted, Kernel(30, 1)),
                            MorphOpen(inverted, Kernel(1, 15))),
                  MorphClose(inverted, Kernel(3, 3)))

\* Text mask by thresholding (the branch taken when enable_ocr is False).
TextMask(image) ==
    LET binary == Threshold(image, text_cutoff)
        inverted == Invert(binary)
        horizontal_lines == MorphOpen(inverted, Kernel(30, 1))
        vertical_lines == MorphOpen(inverted, Kernel(1, 15))
        small_elements == MorphClose(inverted, Kernel(3, 3))
        text_combined == BitwiseOr(BitwiseOr(horizontal_lines, vertical_lines),
                                   small_elements)
    IN  Dilate(text_combined, Kernel(30, 15))

\* Long horizontal rules, dilated vertically.
HorizontalLines(image) ==
    LET line_binary == Invert(Threshold(image, line_cutoff))
        width == image.width
        lengths == (IF width > 100 THEN {Max(100, width \div 3)} ELSE {})
                       \cup (IF width > 60 THEN {Max(60, width \div 5)} ELSE {})
                       \cup (IF width > 30 THEN {Max(30, width \div 10)} ELSE {})
        line_masks == {MorphOpen(line_binary, Kernel(n, 1)) : n \in lengths}
        opened == IF \E m \in line_masks : m.neg
                  THEN Mask(TRUE, {}, width, image.height)
                  ELSE Mask(FALSE, UNION {m.rects : m \in line_masks}, width, image.height)
    IN  Dilate(opened, Kernel(1, 15))

\* Long vertical rules, dilated horizontally.
VerticalLines(image) ==
    LET line_binary == Invert(Threshold(image, line_cutoff))
        height == image.height
        lengths == (IF height > 100 THEN {Max(100, height \div 3)} ELSE {})
                       \cup (IF height > 60 THEN {Max(60, height \div 5)} ELSE {})
        line_masks == {MorphOpen(line_binary, Kernel(1, n)) : n \in lengths}
        opened == IF \E m \in line_masks : m.neg
                  THEN Mask(TRUE, {}, image.width, height)
                  ELSE Mask(FALSE, UNION {m.rects : m \in line_masks}, image.width, height)
    IN  Dilate(opened, Kernel(15, 1))

\* cv2.findContours(image_detection, RETR_EXTERNAL) of the thresholded
\* Laplacian of the blurred page.  A 0 / 255 step leaves, after the 5 x 5
\* blur, |Laplacian| > 30 on the two pixels either side of it; a 230 / 255
\* step leaves less than 5.  So an isolated block gives a closed ring, four
\* bands give a ring around the interior, and fewer bands give open strips
\* along the sides of the interior they border (two contours when the bands
\* face each other without a third one joining them).
EdgeContours(image) ==
    LET grow(r) == Rect(r.x0 - 2, r.y0 - 2, r.x1 + 2, r.y1 + 2)
        ring(r) == [area |-> (r.x1 - r.x0 + 3) * (r.y1 - r.y0 + 3), fill |-> {grow(r)}]
        i == Interior(image)
        sides ==
            (IF image.left > 0 THEN {Rect(i.x0 - 2, i.y0, i.x0 + 2, i.y1)} ELSE {})
                \cup (IF image.right > 0 THEN {Rect(i.x1 - 2, i.y0, i.x1 + 2, i.y1)} ELSE {})
                \cup (IF image.top > 0 THEN {Rect(i.x0, i.y0 - 2, i.x1, i.y0 + 2)} ELSE {})
                \cup (IF image.bottom > 0 THEN {Rect(i.x0, i.y1 - 2, i.x1, i.y1 + 2)} ELSE {})
        strip(rs) == [area |-> 3 * (UnionArea(rs) \div 4 - 1), fill |-> rs]
        facing == (image.left > 0 /\ image.right > 0 /\ image.top = 0 /\ image.bottom = 0)
                      \/ (image.top > 0 /\ image.bottom > 0 /\ image.left = 0 /\ image.right = 0)
    IN  IF image.bg # shade.white THEN {}
        ELSE {ring(b) : b \in image.blocks}
                 \cup (IF sides = {} \/ Empty(i) THEN {}
                       ELSE IF Cardinality(sides) = 4 THEN {ring(i)}
                       ELSE IF facing THEN {strip({r}) : r \in sides}
                       ELSE {strip(sides)})

\* Image mask: the large contours of the high-frequency map, filled and dilated.
ImageMask(image) ==
    LET contours == EdgeContours(image)
        large == {c \in contours : c.area > min_image_area}
    IN  Mask(FALSE,
             UNION {Dilate(Mask(FALSE, c.fill, image.width, image.height),
                           Kernel(30, 30)).rects : c \in large},
             image.width, image.height)

\* cv2.findContours(qr_binary, RETR_TREE) of the page thresholded at 128: the
\* outer contour of the white region (the interior the bands leave) and one
\* hole contour around every block, traced on the white pixels next to it.
QrContours(image) ==
    LET i == Interior(image)
        around(b) == Rect(b.x0 - 1, b.y0 - 1, b.x1 + 1, b.y1 + 1)
    IN  IF image.bg <= qr_cutoff THEN {}
        ELSE (IF Empty(i) THEN {}
              ELSE {[area |-> (i.x1 - i.x0 - 1) * (i.y1 - i.y0 - 1), box |-> i, fill |-> i]})
                 \cup {[area |-> (b.x1 - b.x0 + 1) * (b.y1 - b.y0 + 1),
                        box |-> around(b), fill |-> around(b)] : b \in image.blocks}

\* QR mask: mid-sized, roughly square, high-variance contours, filled and dilated.
QrMask(image) ==
    LET qr_contours == QrContours(image)
        w(c) == c.box.x1 - c.box.x0
        h(c) == c.box.y1 - c.box.y0
        square(c) == h(c) > 0 /\ 10 * w(c) > 7 * h(c) /\ 10 * w(c) < 13 * h(c)
        hits == {c \in qr_contours :
                    /\ qr_min_area < c.area /\ c.area < qr_max_area
                    /\ square(c)
                    /\ Area(c.box) > 0
                    /\ StdAbove(image, c.box, qr_min_std)}
    IN  Mask(FALSE,
             UNION {Dilate(Mask(FALSE, {c.fill}, image.width, image.height),
                           Kernel(40, 40)).rects : c \in hits},
             image.width, image.height)

\* cv2.threshold(image, 245, 255, cv2.THRESH_BINARY)
WhiteBinary(image) == Threshold(image, white_cutoff)

\* The masks find_whitest_space builds before it searches.  With enable_ocr
\* set the thresholding branch is skipped and the text mask is what the OCR
\* pass marked (nothing, here).
CombineMasks(zeros, text_mask, horizontal, vertical, image_mask, qrcode_mask, white_binary) ==
    [forbidden_mask |->
         BitwiseOr(BitwiseOr(BitwiseOr(BitwiseOr(BitwiseOr(zeros, text_mask),
             horizontal), vertical), image_mask), qrcode_mask),
     text_mask |-> text_mask, image_mask |-> image_mask, qrcode_mask |-> qrcode_mask,
     white_binary |-> white_binary]

DetectMasks(image, ocr) ==
    CombineMasks(NpZeros(image.height, image.width),
                 IF ~ocr THEN TextMask(image) ELSE NpZeros(image.height, image.width),
                 HorizontalLines(image), VerticalLines(image),
                 ImageMask(image), QrMask(image), WhiteBinary(image))

\* ------------------------------------------------------------------------
\* The search (find_whitest_space, after the masks).  `c` holds the locals of
\* one call: image, forbidden_mask, white_binary, stamp_size_max,
\* stamp_size_min.
\* ------------------------------------------------------------------------
Zone(x, y, square_size) == Rect(x, y, x + square_size, y + square_size)

\* a / b > c / d for b, d > 0, without forming the cross products.
RECURSIVE FracGreater(_, _, _, _)
FracGreater(a, b, c, d) ==
    IF a \div b # c \div d THEN a \div b > c \div d
    ELSE IF a % b = 0 THEN FALSE
    ELSE IF c % d = 0 THEN TRUE
    ELSE FracGreater(d, c % d, b, a % b)

\* white_ratio = np.mean(roi_white) / 255.0, kept as <<set pixels, pixels>>.
WhiteRatio(c, roi) == <<CountNonZero(c.white_binary, roi), Area(roi)>>

\* forbidden_ratio = np.sum(roi_forbidden) / (square_size * square_size)
ForbiddenRatio(c, roi, square_size) ==
    <<NpSum(c.forbidden_mask, roi), square_size * square_size>>

\* ratio > pct / 100
RatioAbove(ratio, pct) == FracGreater(ratio[1], ratio[2], pct, 100)

RatioGreater(p, q) == FracGreater(p[1], p[2], q[1], q[2])

min_zone_size(c) == c.stamp_size_min + 2 * min_margin

\* The largest zone without the floor of 410.
max_zone_size_no_floor(c) == c.stamp_size_max + 2 * min_margin

max_zone_size(c) == Max(c.stamp_size_max + 2 * min_margin, max_zone_floor)

\* list(range(max_zone_size, min_zone_size - 1, -5)), before the check of its
\* last element.
SearchRange(c) == RangeDown(max_zone_size(c), min_zone_size(c) - 1, size_step)

search_sizes_to_try(c) ==
    LET sizes == SearchRange(c)
    IN  IF sizes[Len(sizes)] # min_zone_size(c) THEN Append(sizes, min_zone_size(c))
        ELSE sizes

FallbackRange(c) ==
    RangeDown(c.stamp_size_max + 2 * min_margin, min_zone_size(c) - 1, fallback_size_step)

fallback_sizes(c) ==
    LET sizes == FallbackRange(c)
    IN  IF sizes[Len(sizes)] # min_zone_size(c) THEN Append(sizes, min_zone_size(c))
        ELSE sizes

NearMax(c, square_size) ==
    square_size >= c.stamp_size_max + 2 * min_margin - near_max_slack

ScanStep(c, square_size) ==
    IF NearMax(c, square_size) THEN Max(5, square_size \div 30)
    ELSE Max(10, square_size \div 20)

\* The stamp as large as the zone, margins forgotten.
available_stamp_size_no_margin(c, square_size) == Min(square_size, c.stamp_size_max)

available_stamp_size(c, square_size) ==
    Min(square_size - 2 * min_margin, c.stamp_size_max)

Position(x, y, white_ratio, stamp, square_size) ==
    [x |-> x, y |-> y, white_ratio |-> white_ratio, stamp_size |-> stamp,
     size |-> square_size]

\* The primary scan's accumulator: best_position, best_stamp_size, and the
\* number of candidate zones looked at so far.
PrimaryStart == [best_position |-> None, best_stamp_size |-> 0, examined |-> 0]

\* An acceptance test that also takes a zone whose whiteness is the threshold
\* itself.
PrimaryAcceptsAtThreshold(c, x, y, square_size) ==
    /\ NpSum(c.forbidden_mask, Zone(x, y, square_size)) = 0
    /\ ~FracGreater(IF NearMax(c, square_size) THEN white_threshold_large
                    ELSE white_threshold_small, 100,
                    WhiteRatio(c, Zone(x, y, square_size))[1],
                    WhiteRatio(c, Zone(x, y, square_size))[2])
    /\ available_stamp_size(c, square_size) >= c.stamp_size_min

\* A candidate of the primary scan is kept when no forbidden pixel lies in the
\* zone and the zone is white enough.
PrimaryAccepts(c, x, y, square_size) ==
    /\ NpSum(c.forbidden_mask, Zone(x, y, square_size)) = 0
    /\ RatioAbove(WhiteRatio(c, Zone(x, y, square_size)),
                  IF NearMax(c, square_size) THEN white_threshold_large
                  ELSE white_threshold_small)
    /\ available_stamp_size(c, square_size) >= c.stamp_size_min

\* A loop body that keeps the zone accepted last, whatever its stamp.
PrimaryVisitKeepingLast(c, x, y, square_size, acc) ==
    IF ~PrimaryAccepts(c, x, y, square_size) THEN [acc EXCEPT !.examined = @ + 1]
    ELSE [best_position |->
              Position(x, y, WhiteRatio(c, Zone(x, y, square_size)),
                       available_stamp_size(c, square_size), square_size),
          best_stamp_size |-> available_stamp_size(c, square_size),
          examined |-> acc.examined + 1]

\* A loop body that lets a later zone with the same stamp take the place of
\* the one kept.
PrimaryVisitKeepingTies(c, x, y, square_size, acc) ==
    IF PrimaryAccepts(c, x, y, square_size)
           /\ available_stamp_size(c, square_size) >= acc.best_stamp_size
    THEN [best_position |->
              Position(x, y, WhiteRatio(c, Zone(x, y, square_size)),
                       available_stamp_size(c, square_size), square_size),
          best_stamp_size |-> available_stamp_size(c, square_size),
          examined |-> acc.examined + 1]
    ELSE [acc EXCEPT !.examined = @ + 1]

\* Body of the x loop of the primary scan.
PrimaryVisit(c, x, y, square_size, acc) ==
    LET stamp == available_stamp_size(c, square_size)
        seen == [acc EXCEPT !.examined = @ + 1]
        found == [seen EXCEPT
                    !.best_position =
                        Position(x, y, WhiteRatio(c, Zone(x, y, square_size)),
                                 stamp, square_size),
                    !.best_stamp_size = stamp]
    IN  IF ~PrimaryAccepts(c, x, y, square_size) THEN seen
        ELSE IF stamp >= c.stamp_size_max THEN found
        ELSE IF stamp > acc.best_stamp_size THEN found
        ELSE seen

RECURSIVE PrimaryScanX(_, _, _, _, _)
PrimaryScanX(c, x, y, square_size, acc) ==
    IF x >= c.image.width - square_size THEN acc
    ELSE LET next == PrimaryVisit(c, x, y, square_size, acc)
         IN  IF next.best_stamp_size >= c.stamp_size_max THEN next
             ELSE PrimaryScanX(c, x + ScanStep(c, square_size), y, square_size, next)

RECURSIVE PrimaryScanY(_, _, _, _)
PrimaryScanY(c, y, square_size, acc) ==
    IF y >= c.image.height - square_size THEN acc
    ELSE LET next == PrimaryScanX(c, 0, y, square_size, acc)
         IN  IF next.best_stamp_size >= c.stamp_size_max THEN next
             ELSE PrimaryScanY(c, y + ScanStep(c, square_size), square_size, next)

\* A loop over the sizes without its break: it goes on to the smallest size.
RECURSIVE PrimaryScanSizesToTheEnd(_, _, _, _)
PrimaryScanSizesToTheEnd(c, sizes, i, acc) ==
    IF i > Len(sizes) \/ acc.examined < 0 THEN acc
    ELSE IF c.image.width - sizes[i] <= 0 \/ c.image.height - sizes[i] <= 0
         THEN PrimaryScanSizesToTheEnd(c, sizes, i + 1, acc)
    ELSE PrimaryScanSizesToTheEnd(c, sizes, i + 1, PrimaryScanY(c, 0, sizes[i], acc))

\* The loop over search_sizes_to_try, from its i-th size on.
RECURSIVE PrimaryScanSizes(_, _, _, _)
PrimaryScanSizes(c, sizes, i, acc) ==
    IF i > Len(sizes) \/ acc.best_stamp_size >= c.stamp_size_max THEN acc
    ELSE IF c.image.width - sizes[i] <= 0 \/ c.image.height - sizes[i] <= 0
         THEN PrimaryScanSizes(c, sizes, i + 1, acc)
    ELSE PrimaryScanSizes(c, sizes, i + 1, PrimaryScanY(c, 0, sizes[i], acc))

PrimaryScan(c) == PrimaryScanSizes(c, search_sizes_to_try(c), 1, PrimaryStart)

\* The dict find_whitest_space returns first (its values are floats of these
\* integers).
Placement(x, y, square_size, stamp) ==
    [x |-> x, y |-> y, size |-> square_size, stamp_size |-> stamp]

\* Local refinement around best_position, at its size only.
RefineAccepts(c, x, y, found_square_size) ==
    /\ NpSum(c.forbidden_mask, Zone(x, y, found_square_size)) = 0
    /\ RatioAbove(WhiteRatio(c, Zone(x, y, found_square_size)), white_threshold_small)
    /\ available_stamp_size(c, found_square_size) >= c.stamp_size_min

RECURSIVE RefineX(_, _, _, _, _, _)
RefineX(c, best, x, stop, y, acc) ==
    IF x >= stop THEN acc
    ELSE LET stamp == available_stamp_size(c, best.size)
             next == IF RefineAccepts(c, x, y, best.size) /\ stamp > acc.best_refined_stamp_size
                     THEN [best_refined |->
                               Position(x, y, WhiteRatio(c, Zone(x, y, best.size)),
                                        stamp, best.size),
                           best_refined_stamp_size |-> stamp]
                     ELSE acc
         IN  RefineX(c, best, x + fine_step, stop, y, next)

RECURSIVE RefineY(_, _, _, _, _)
RefineY(c, best, y, stop, acc) ==
    IF y >= stop THEN acc
    ELSE RefineY(c, best, y + fine_step, stop,
                 RefineX(c, best, Max(0, best.x - refine_radius),
                         Min(c.image.width - best.size, best.x + refine_radius + 1),
                         y, acc))

\* A refinement that moves on to the right-hand neighbour of the fine grid when
\* that zone is as good as the one found.
RefineMovingOn(c, best) ==
    IF /\ best.x + fine_step < c.image.width - best.size
       /\ RefineAccepts(c, best.x + fine_step, best.y, best.size)
    THEN Position(best.x + fine_step, best.y,
                  WhiteRatio(c, Zone(best.x + fine_step, best.y, best.size)),
                  available_stamp_size(c, best.size), best.size)
    ELSE best

Refine(c, best) ==
    LET start == [best_refined |-> None, best_refined_stamp_size |-> best.stamp_size]
        search_width == c.image.width - best.size
        search_height == c.image.height - best.size
        fine == IF search_width > 0 /\ search_height > 0
                THEN RefineY(c, best, Max(0, best.y - refine_radius),
                             Min(search_height, best.y + refine_radius + 1), start)
                ELSE start
    IN  IF fine.best_refined # None /\ fine.best_refined_stamp_size > best.stamp_size
        THEN fine.best_refined
        ELSE best

\* ------------------------------------------------------------------------
\* Fallback tiers
\* ------------------------------------------------------------------------
corner_positions_base(c) ==
    LET width == c.image.width
        height == c.image.height
    IN  << <<width - 20, 20>>, <<20, 20>>, <<width - 20, height - 20>>,
           <<20, height - 20>>, <<width - 50, 50>>, <<50, 50>>, <<width \div 2, 20>> >>

fallback_positions_base(c) ==
    LET width == c.image.width
        height == c.image.height
    IN  << <<width - 50, 50>>, <<50, 50>>, <<width - 50, height - 50>>,
           <<50, height - 50>>, <<width \div 2, 50>>, <<width \div 2, height - 50>> >>

emergency_positions_base(c) ==
    LET width == c.image.width
        height == c.image.height
    IN  << <<width - 20, height - 20>>, <<20, height - 20>>, <<width - 20, 20>>, <<20, 20>> >>

\* The zone the code derives from a base point, and the test that it lies in
\* the page.
CornerX(base, square_size) == base[1] - square_size

CornerY(base, square_size) == base[2]

InPage(c, x, y, square_size) ==
    /\ x >= 0 /\ y >= 0
    /\ x + square_size <= c.image.width /\ y + square_size <= c.image.height

\* First fallback (T1): the corners, strict.
CornerStart ==
    [best |-> None, best_stamp_size |-> 0, best_forbidden_ratio |-> <<1, 1>>,
     best_white_ratio |-> <<0, 1>>, stop |-> FALSE]

CornerVisit(c, base, square_size, acc) ==
    LET x == CornerX(base, square_size)
        y == CornerY(base, square_size)
        roi == Zone(x, y, square_size)
        forbidden_ratio == ForbiddenRatio(c, roi, square_size)
        white_ratio == WhiteRatio(c, roi)
        stamp == available_stamp_size(c, square_size)
        taken == [best |-> Placement(x, y, square_size, stamp), best_stamp_size |-> stamp,
                  best_forbidden_ratio |-> forbidden_ratio, best_white_ratio |-> white_ratio,
                  stop |-> stamp >= c.stamp_size_max]
    IN  IF ~InPage(c, x, y, square_size) THEN acc
        ELSE IF ~(forbidden_ratio[1] = 0 /\ RatioAbove(white_ratio, fallback_white_threshold))
             THEN acc
        ELSE IF stamp < c.stamp_size_min THEN acc
        ELSE IF stamp >= c.stamp_size_max THEN taken
        ELSE IF stamp > acc.best_stamp_size
                  \/ (stamp = acc.best_stamp_size
                        /\ RatioGreater(white_ratio, acc.best_white_ratio))
             THEN taken
        ELSE acc

RECURSIVE CornerBases(_, _, _, _, _)
CornerBases(c, bases, j, square_size, acc) ==
    IF j > Len(bases) \/ acc.stop THEN acc
    ELSE CornerBases(c, bases, j + 1, square_size,
                     CornerVisit(c, bases[j], square_size, acc))

RECURSIVE CornerSizes(_, _, _, _)
CornerSizes(c, sizes, i, acc) ==
    IF i > Len(sizes) THEN acc
    ELSE IF acc.best # None /\ acc.best_stamp_size >= c.stamp_size_max THEN acc
    ELSE CornerSizes(c, sizes, i + 1,
                     CornerBases(c, corner_positions_base(c), 1, sizes[i],
                                 [acc EXCEPT !.stop = FALSE]))

CornerFallback(c) == CornerSizes(c, fallback_sizes(c), 1, CornerStart).best

\* Second fallback (T2): the rescue positions, strict.
RescueStart ==
    [best |-> None, best_stamp_size |-> 0, best_white_ratio |-> <<0, 1>>]

RescueVisit(c, base, square_size, acc) ==
    LET x == CornerX(base, square_size)
        y == CornerY(base, square_size)
        roi == Zone(x, y, square_size)
        white_ratio == WhiteRatio(c, roi)
        stamp == available_stamp_size(c, square_size)
    IN  IF ~InPage(c, x, y, square_size) THEN acc
        ELSE IF NpSum(c.forbidden_mask, roi) # 0 THEN acc
        ELSE IF ~RatioAbove(white_ratio, fallback_white_threshold) THEN acc
        ELSE IF stamp < c.stamp_size_min THEN acc
        ELSE IF stamp > acc.best_stamp_size
                  \/ (stamp = acc.best_stamp_size
                        /\ RatioGreater(white_ratio, acc.best_white_ratio))
             THEN [best |-> Placement(x, y, square_size, stamp), best_stamp_size |-> stamp,
                   best_white_ratio |-> white_ratio]
        ELSE acc

RECURSIVE RescueBases(_, _, _, _, _)
RescueBases(c, bases, j, square_size, acc) ==
    IF j > Len(bases) THEN acc
    ELSE RescueBases(c, bases, j + 1, square_size,
                     RescueVisit(c, bases[j], square_size, acc))

RECURSIVE RescueSizes(_, _, _, _)
RescueSizes(c, sizes, i, acc) ==
    IF i > Len(sizes) THEN acc
    ELSE IF acc.best # None /\ acc.best_stamp_size >= c.stamp_size_min THEN acc
    ELSE RescueSizes(c, sizes, i + 1,
                     RescueBases(c, fallback_positions_base(c), 1, sizes[i], acc))

RescueFallback(c) == RescueSizes(c, fallback_sizes(c), 1, RescueStart).best

\* Emergency corners without overlap (T3a) and with the minimal overlap (T3b).
EmergencyStart ==
    [best |-> None, best_stamp_size |-> 0, best_white_ratio |-> <<0, 1>>,
     best_overlap |-> <<1, 1>>]

\* An emergency corner without overlap that is content with the whiteness
\* of the last tier.
StrictEmergencyVisitRelaxed(c, base, square_size, acc) ==
    IF /\ InPage(c, CornerX(base, square_size), CornerY(base, square_size), square_size)
       /\ NpSum(c.forbidden_mask,
                Zone(CornerX(base, square_size), CornerY(base, square_size), square_size)) = 0
       /\ RatioAbove(WhiteRatio(c, Zone(CornerX(base, square_size),
                                         CornerY(base, square_size), square_size)),
                     relaxed_white_threshold)
       /\ available_stamp_size(c, square_size) >= c.stamp_size_min
       /\ available_stamp_size(c, square_size) > acc.best_stamp_size
    THEN [best |-> Placement(CornerX(base, square_size), CornerY(base, square_size),
                             square_size, available_stamp_size(c, square_size)),
          best_stamp_size |-> available_stamp_size(c, square_size),
          best_white_ratio |-> WhiteRatio(c, Zone(CornerX(base, square_size),
                                                  CornerY(base, square_size), square_size)),
          best_overlap |-> <<0, 1>>]
    ELSE acc

StrictEmergencyVisit(c, base, square_size, acc) ==
    LET x == CornerX(base, square_size)
        y == CornerY(base, square_size)
        roi == Zone(x, y, square_size)
        forbidden_ratio == ForbiddenRatio(c, roi, square_size)
        white_ratio == WhiteRatio(c, roi)
        stamp == available_stamp_size(c, square_size)
    IN  IF ~InPage(c, x, y, square_size) THEN acc
        ELSE IF forbidden_ratio[1] # 0 THEN acc
        ELSE IF ~RatioAbove(white_ratio, fallback_white_threshold) THEN acc
        ELSE IF stamp < c.stamp_size_min THEN acc
        ELSE IF stamp > acc.best_stamp_size
                  \/ (stamp = acc.best_stamp_size
                        /\ RatioGreater(white_ratio, acc.best_white_ratio))
             THEN [best |-> Placement(x, y, square_size, stamp), best_stamp_size |-> stamp,
                   best_white_ratio |-> white_ratio, best_overlap |-> <<0, 1>>]
        ELSE acc

\* A last tier that asks for the whiteness of the strict tiers.
OverlapAcceptsStrictly(c, x, y, square_size) ==
    /\ ~RatioAbove(ForbiddenRatio(c, Zone(x, y, square_size), square_size),
                   MAX_ALLOWED_OVERLAP)
    /\ RatioAbove(WhiteRatio(c, Zone(x, y, square_size)), fallback_white_threshold)
    /\ available_stamp_size(c, square_size) >= c.stamp_size_min

\* forbidden_ratio <= MAX_ALLOWED_OVERLAP and white_ratio > 0.90
OverlapAccepts(c, x, y, square_size) ==
    /\ ~RatioAbove(ForbiddenRatio(c, Zone(x, y, square_size), square_size),
                   MAX_ALLOWED_OVERLAP)
    /\ RatioAbove(WhiteRatio(c, Zone(x, y, square_size)), relaxed_white_threshold)
    /\ available_stamp_size(c, square_size) >= c.stamp_size_min

\* An emergency corner with overlap that ranks whiteness before overlap.
OverlapEmergencyVisitByWhiteness(c, base, square_size, acc) ==
    IF /\ InPage(c, CornerX(base, square_size), CornerY(base, square_size), square_size)
       /\ OverlapAccepts(c, CornerX(base, square_size), CornerY(base, square_size),
                         square_size)
       /\ \/ available_stamp_size(c, square_size) > acc.best_stamp_size
          \/ /\ available_stamp_size(c, square_size) = acc.best_stamp_size
             /\ RatioGreater(WhiteRatio(c, Zone(CornerX(base, square_size),
                                                CornerY(base, square_size), square_size)),
                             acc.best_white_ratio)
    THEN [best |-> Placement(CornerX(base, square_size), CornerY(base, square_size),
                             square_size, available_stamp_size(c, square_size)),
          best_stamp_size |-> available_stamp_size(c, square_size),
          best_white_ratio |-> WhiteRatio(c, Zone(CornerX(base, square_size),
                                                  CornerY(base, square_size), square_size)),
          best_overlap |-> ForbiddenRatio(c, Zone(CornerX(base, square_size),
                                                  CornerY(base, square_size), square_size),
                                          square_size)]
    ELSE acc

OverlapEmergencyVisit(c, base, square_size, acc) ==
    LET x == CornerX(base, square_size)
        y == CornerY(base, square_size)
        roi == Zone(x, y, square_size)
        forbidden_ratio == ForbiddenRatio(c, roi, square_size)
        white_ratio == WhiteRatio(c, roi)
        stamp == available_stamp_size(c, square_size)
        is_better ==
            \/ stamp > acc.best_stamp_size
            \/ /\ stamp = acc.best_stamp_size
               /\ \/ RatioGreater(acc.best_overlap, forbidden_ratio)
                  \/ /\ ~RatioGreater(acc.best_overlap, forbidden_ratio)
                     /\ ~RatioGreater(forbidden_ratio, acc.best_overlap)
                     /\ RatioGreater(white_ratio, acc.best_white_ratio)
    IN  IF ~InPage(c, x, y, square_size) THEN acc
        ELSE IF ~OverlapAccepts(c, x, y, square_size) THEN acc
        ELSE IF is_better
             THEN [best |-> Placement(x, y, square_size, stamp), best_stamp_size |-> stamp,
                   best_white_ratio |-> white_ratio, best_overlap |-> forbidden_ratio]
        ELSE acc

RECURSIVE EmergencyBases(_, _, _, _, _, _)
EmergencyBases(c, strict, bases, j, square_size, acc) ==
    IF j > Len(bases) THEN acc
    ELSE EmergencyBases(c, strict, bases, j + 1, square_size,
                        IF strict THEN StrictEmergencyVisit(c, bases[j], square_size, acc)
                        ELSE OverlapEmergencyVisit(c, bases[j], square_size, acc))

\* (The loop has no exit but its end; the test on `next` only makes the
\* accumulator be computed size by size.)
RECURSIVE EmergencySizes(_, _, _, _, _)
EmergencySizes(c, strict, sizes, i, acc) ==
    IF i > Len(sizes) THEN acc
    ELSE LET next == EmergencyBases(c, strict, emergency_positions_base(c), 1,
                                    sizes[i], acc)
         IN  IF next.best_stamp_size >= 0
             THEN EmergencySizes(c, strict, sizes, i + 1, next)
             ELSE next

StrictEmergency(c) ==
    EmergencySizes(c, TRUE, search_sizes_to_try(c), 1, EmergencyStart).best

OverlapEmergency(c) ==
    EmergencySizes(c, FALSE, search_sizes_to_try(c), 1, EmergencyStart).best

\* Forced placement (T4): upper right corner, smallest zone, cut to the page.
\* The forced zone as large as the stamp, margins forgotten.
forced_square_size_no_margin(c) == c.stamp_size_min

forced_square_size(c) == c.stamp_size_min + 2 * min_margin

\* The forced abscissa without the cut to the page.
forced_x_unclamped(c) == c.image.width - c.stamp_size_min - 2 * min_margin - forced_offset

forced_x(c) ==
    LET x == Max(0, c.image.width - forced_square_size(c) - forced_offset)
    IN  IF x + forced_square_size(c) > c.image.width
        THEN Max(0, c.image.width - forced_square_size(c))
        ELSE x

\* The forced zone against the lower edge instead of the upper one.
forced_y_bottom(c) == Max(0, c.image.height - c.stamp_size_min - 2 * min_margin - forced_offset)

forced_y(c) ==
    IF forced_offset + forced_square_size(c) > c.image.height
    THEN Max(0, c.image.height - forced_square_size(c))
    ELSE forced_offset

\* No forced placement: the search reports that it found nothing.
forced_position_none(c) == None

forced_position(c) ==
    Placement(forced_x(c), forced_y(c), forced_square_size(c), c.stamp_size_min)

\* ------------------------------------------------------------------------
\* Kernel cache: @lru_cache(maxsize=32) on _get_text_detection_kernel, as the
\* list of cached sizes, least recently used first.
\* ------------------------------------------------------------------------
SeqWithout(q, k) == SelectSeq(q, LAMBDA e : e # k)

\* A cache that never evicts.
LruGetKeepingAll(cache, size) == Append(SeqWithout(cache, size), size)

LruGet(cache, size) ==
    LET kept == SeqWithout(cache, size)
        grown == Append(kept, size)
    IN  IF Len(grown) > lru_maxsize THEN SubSeq(grown, 2, Len(grown)) ELSE grown

RECURSIVE LruGetAll(_, _)
LruGetAll(cache, sizes) ==
    IF sizes = << >> THEN cache
    ELSE LruGetAll(LruGet(cache, Head(sizes)), Tail(sizes))

\* The kernel sizes one call asks for, in order.
KernelRequests(image, ocr) ==
    LET width == image.width
        height == image.height
        n_image == Cardinality({c \in EdgeContours(image) : c.area > min_image_area})
        n_qr == Cardinality(QrMask(image).rects)
    IN  (IF ocr THEN << >> ELSE << <<30, 1>>, <<1, 15>>, <<3, 3>>, <<30, 15>> >>)
            \o (IF width > 100 THEN << <<Max(100, width \div 3), 1>> >> ELSE << >>)
            \o (IF width > 60 THEN << <<Max(60, width \div 5), 1>> >> ELSE << >>)
            \o (IF width > 30 THEN << <<Max(30, width \div 10), 1>> >> ELSE << >>)
            \o << <<1, 15>> >>
            \o (IF height > 100 THEN << <<1, Max(100, height \div 3)>> >> ELSE << >>)
            \o (IF height > 60 THEN << <<1, Max(60, height \div 5)>> >> ELSE << >>)
            \o << <<15, 1>> >>
            \o (IF n_image > 0 THEN << <<30, 30>> >> ELSE << >>)
            \o (IF n_qr > 0 THEN << <<40, 40>> >> ELSE << >>)

\* ------------------------------------------------------------------------
\* State
\* ------------------------------------------------------------------------
VARIABLES
    stamp_size_max,     \* self.stamp_size_max
    stamp_size_min,     \* self.stamp_size_min
    enable_ocr,         \* self.enable_ocr
    kernel_cache,       \* the lru_cache of _get_text_detection_kernel
    call,               \* per worker thread: the locals of its find_whitest_space call
    results,            \* what the calls so far returned or raised, per page
    low_dpi,            \* self.low_dpi
    tmp_files,          \* the temporary files that exist
    request             \* per worker thread of the gRPC server: the locals of its ProcessPDF call

vars == <<stamp_size_max, stamp_size_min, enable_ocr, kernel_cache, call, results,
          low_dpi, tmp_files, request>>

\* Number of worker threads that may call into the shared PDFProcessor.
NThreads == 2

Threads == 1 .. NThreads

Idle ==
    [pc |-> "idle", image |-> None, stamp_size_max |-> 0, stamp_size_min |-> 0,
     forbidden_mask |-> None, text_mask |-> None, image_mask |-> None,
     qrcode_mask |-> None, white_binary |-> None, best_position |-> None,
     examined |-> 0, result |-> None, tier |-> NoName, raised |-> NoName]

\* The outcome of one more call on `image`: <<image, n, outcome>> for the n-th
\* call on that raster.
Record(done, image, outcome) ==
    done \cup {<<image, 1 + Cardinality({e \in done : e[1] = image}), outcome>>}

Raised(name) == [raised |-> name]

\* find_whitest_space(image) is entered: height, width and the stamp sizes are read.
Call(t, image) ==
    /\ call[t].pc = "idle"
    /\ call' = [call EXCEPT ![t] =
                   [Idle EXCEPT !.pc = "detect", !.image = image,
                                !.stamp_size_max = stamp_size_max,
                                !.stamp_size_min = stamp_size_min]]
    /\ UNCHANGED <<low_dpi, tmp_files, request,
                   stamp_size_max, stamp_size_min, enable_ocr, kernel_cache, results>>

\* Mask construction that thresholds the raster in place: what was above
\* text_cutoff is white afterwards, the rest black.
MaskedInPlace(c, m) ==
    [c EXCEPT !.pc = "primary",
              !.image = [@ EXCEPT !.grey = {},
                                  !.bg = IF @ > text_cutoff THEN shade.white ELSE shade.ink],
              !.forbidden_mask = m.forbidden_mask,
              !.text_mask = m.text_mask,
              !.image_mask = m.image_mask,
              !.qrcode_mask = m.qrcode_mask,
              !.white_binary = m.white_binary]

\* The masks are built (text, lines, images, QR codes, white pixels).
Masked(c, m) ==
    [c EXCEPT !.pc = "primary",
              !.forbidden_mask = m.forbidden_mask,
              !.text_mask = m.text_mask,
              !.image_mask = m.image_mask,
              !.qrcode_mask = m.qrcode_mask,
              !.white_binary = m.white_binary]

\* Mask construction that leaves OCR switched on for the pages to come.
DetectEnablingOcr(t) ==
    /\ call[t].pc = "detect"
    /\ call' = [call EXCEPT ![t] = Masked(@, DetectMasks(call[t].image, enable_ocr))]
    /\ kernel_cache' = LruGetAll(kernel_cache, KernelRequests(call[t].image, enable_ocr))
    /\ enable_ocr' = TRUE
    /\ UNCHANGED <<low_dpi, tmp_files, request,
                   stamp_size_max, stamp_size_min, results>>

Detect(t) ==
    /\ call[t].pc = "detect"
    /\ call' = [call EXCEPT ![t] = Masked(@, DetectMasks(call[t].image, enable_ocr))]
    /\ kernel_cache' = LruGetAll(kernel_cache, KernelRequests(call[t].image, enable_ocr))
    /\ UNCHANGED <<low_dpi, tmp_files, request,
                   stamp_size_max, stamp_size_min, enable_ocr, results>>

\* search_sizes_to_try[-1] on an empty list.
SizesRaise(t) ==
    /\ call[t].pc = "primary"
    /\ SearchRange(call[t]) = << >>
    /\ call' = [call EXCEPT ![t] = [@ EXCEPT !.pc = "raised", !.raised = "IndexError"]]
    /\ results' = Record(results, call[t].image, Raised("IndexError"))
    /\ UNCHANGED <<low_dpi, tmp_files, request,
                   stamp_size_max, stamp_size_min, enable_ocr, kernel_cache>>

Scanned(c, acc) ==
    [c EXCEPT !.pc = IF acc.best_position # None THEN "refine" ELSE "T1",
              !.best_position = acc.best_position,
              !.examined = acc.examined]

\* The primary scan over sizes and positions.
Primary(t) ==
    /\ call[t].pc = "primary"
    /\ SearchRange(call[t]) # << >>
    /\ call' = [call EXCEPT ![t] = Scanned(@, PrimaryScan(call[t]))]
    /\ UNCHANGED <<low_dpi, tmp_files, request,
                   stamp_size_max, stamp_size_min, enable_ocr, kernel_cache, results>>

Return(c, tier, placement) ==
    [c EXCEPT !.pc = "done", !.tier = tier, !.result = placement]

\* The call of thread t returns `placement` from `tier`.
Returns(t, tier, placement) ==
    /\ call' = [call EXCEPT ![t] = Return(@, tier, placement)]
    /\ results' = Record(results, call[t].image, placement)
    /\ UNCHANGED <<low_dpi, tmp_files, request,
                   stamp_size_max, stamp_size_min, enable_ocr, kernel_cache>>

\* The dict built from best_position.
Returned(best) == Placement(best.x, best.y, best.size, best.stamp_size)

\* A position was found: refine around it and return.
Refinement(t) ==
    /\ call[t].pc = "refine"
    /\ Returns(t, "PRIMARY", Returned(Refine(call[t], call[t].best_position)))

\* fallback_sizes[-1] on an empty list.
FallbackRaise(t) ==
    /\ call[t].pc = "T1"
    /\ FallbackRange(call[t]) = << >>
    /\ call' = [call EXCEPT ![t] = [@ EXCEPT !.pc = "raised", !.raised = "IndexError"]]
    /\ results' = Record(results, call[t].image, Raised("IndexError"))
    /\ UNCHANGED <<low_dpi, tmp_files, request,
                   stamp_size_max, stamp_size_min, enable_ocr, kernel_cache>>

\* A fallback tier that gives up the search when it finds nothing: the forced
\* placement comes next, whatever tiers lie between.
TierGivingUp(t, tier, found, next) ==
    IF found # None THEN Returns(t, tier, found)
    ELSE /\ call' = [call EXCEPT ![t] = [@ EXCEPT !.pc = "T4"]]
         /\ UNCHANGED <<low_dpi, tmp_files, request,
                        stamp_size_max, stamp_size_min, enable_ocr, kernel_cache, results>>

\* One fallback tier: return what it found, or go on to the next tier.
Tier(t, tier, found, next) ==
    IF found # None THEN Returns(t, tier, found)
    ELSE /\ call' = [call EXCEPT ![t] = [@ EXCEPT !.pc = next]]
         /\ UNCHANGED <<low_dpi, tmp_files, request,
                        stamp_size_max, stamp_size_min, enable_ocr, kernel_cache, results>>

T1(t) ==
    /\ call[t].pc = "T1"
    /\ FallbackRange(call[t]) # << >>
    /\ Tier(t, "T1", CornerFallback(call[t]), "T2")

T2(t) ==
    /\ call[t].pc = "T2"
    /\ Tier(t, "T2", RescueFallback(call[t]), "T3a")

T3a(t) ==
    /\ call[t].pc = "T3a"
    /\ Tier(t, "T3a", StrictEmergency(call[t]), "T3b")

T3b(t) ==
    /\ call[t].pc = "T3b"
    /\ Tier(t, "T3b", OverlapEmergency(call[t]), "T4")

T4(t) ==
    /\ call[t].pc = "T4"
    /\ Returns(t, "T4", forced_position(call[t]))

\* A test that takes a position on the upper or the left edge of the page for
\* no position.
position_found_and_inside(coords) ==
    coords # None /\ coords.x > 0 /\ coords.y > 0

\* The test _process_single_page makes before it pastes the stamp: a position
\* was found and is valid.
position_found_and_valid(coords) ==
    coords # None /\ coords.x >= 0 /\ coords.y >= 0

\* _process_single_page after find_whitest_space has returned: the stamp and
\* its caption are pasted at the position, or the page is left as it is.
process_single_page(t) ==
    /\ call[t].pc = "done"
    /\ call' = [call EXCEPT ![t] =
                   [@ EXCEPT !.pc = IF position_found_and_valid(call[t].result)
                                    THEN "stamped" ELSE "unstamped"]]
    /\ UNCHANGED <<low_dpi, tmp_files, request,
                   stamp_size_max, stamp_size_min, enable_ocr, kernel_cache, results>>

\* The worker thread is done with its page and free for the next one.
Finish(t) ==
    /\ call[t].pc \in {"stamped", "unstamped", "raised"}
    /\ call' = [call EXCEPT ![t] = Idle]
    /\ UNCHANGED <<low_dpi, tmp_files, request,
                   stamp_size_max, stamp_size_min, enable_ocr, kernel_cache, results>>

Step(t) ==
    \/ Detect(t)
    \/ SizesRaise(t)
    \/ Primary(t)
    \/ Refinement(t)
    \/ FallbackRaise(t)
    \/ T1(t)
    \/ T2(t)
    \/ T3a(t)
    \/ T3b(t)
    \/ T4(t)

\* ------------------------------------------------------------------------
\* Inputs
\* ------------------------------------------------------------------------

\* (stamp_size_max, stamp_size_min): the gRPC servicer's processor, the
\* constructor's defaults, and two processors built with stamp_size_min above
\* stamp_size_max.
Configs == { <<300, 200>>, <<300, 90>>, <<300, 350>>, <<300, 450>> }

\* Page sides around the sizes at which the search changes behaviour.
EdgeSlack == 1

Sides(base) == {base - 1 + k : k \in 0 .. EdgeSlack + 1}

Shades == {shade.white, shade.grey, shade.ink}

\* Uniform square pages about as large as the smallest zone, and for the
\* servicer's processor also about as large as the zones of 310 and 410.
UniformPages(smax, smin) ==
    {Uniform(n, n, bg) : n \in Sides(smin + 2 * min_margin), bg \in Shades}
        \cup (IF <<smax, smin>> = <<300, 200>>
              THEN {Uniform(n, n, bg) : n \in Sides(310) \cup Sides(410), bg \in Shades}
                       \cup {Uniform(250, 250, shade.white), Uniform(230, 230, shade.ink),
                             Uniform(466, 260, shade.grey)}
              ELSE {})

\* White pages with light grey patches, no ink: a thin strip across the page,
\* a strip and a patch, a patch of 45 x 50 and one of 50 x 50.
PatchPages ==
    {Image(466, 260, shade.white, 0, 0, 0, 0, {}, {Rect(0, 100, 466, 106)}),
     Image(420, 260, shade.white, 0, 0, 0, 0, {},
           {Rect(0, 39, 420, 50), Rect(220, 100, 270, 150)}),
     Image(256, 236, shade.white, 0, 0, 0, 0, {}, {Rect(100, 90, 145, 140)}),
     Image(256, 236, shade.white, 0, 0, 0, 0, {}, {Rect(100, 90, 150, 140)})}

\* White pages with ink: a band along the left edge, and a square block.
InkPages ==
    {Image(520, 430, shade.white, 60, 0, 0, 0, {}, {}),
     Image(450, 320, shade.white, 0, 0, 0, 0, {Rect(300, 180, 400, 280)}, {})}

\* The A4-like page of the specification's first scenario.
LargePages == {Uniform(2100, 2970, shade.white)}

\* White pages two pixels larger than a zone of 320 or of 250, with a light
\* grey patch that takes 5 % of the zone of 320 (64 x 80 of 102400), a little
\* less (64 x 79), 2 % of the zone of 250 (25 x 50 of 62500), a little less
\* (25 x 49), and 2 % of the zone of 250 of which the zone of 245 holds only a
\* part (23 x 50 inside it, 5 x 20 outside).
ThresholdPages ==
    {Image(322, 322, shade.white, 0, 0, 0, 0, {}, {Rect(100, 100, 164, 180)}),
     Image(322, 322, shade.white, 0, 0, 0, 0, {}, {Rect(100, 100, 164, 179)}),
     Image(252, 252, shade.white, 0, 0, 0, 0, {}, {Rect(110, 100, 135, 150)}),
     Image(252, 252, shade.white, 0, 0, 0, 0, {}, {Rect(110, 100, 135, 149)}),
     Image(252, 252, shade.white, 0, 0, 0, 0, {},
           {Rect(110, 100, 133, 150), Rect(245, 10, 250, 30)})}

\* A white page with a small block of ink near the middle of its upper edge:
\* no zone of 410 fits beside the block, a zone of 310 does.
TiePages == {Image(700, 500, shade.white, 0, 0, 0, 0, {Rect(350, 10, 360, 20)}, {})}

\* White pages with bands of ink that leave one clean zone of 210, off the
\* grid of the primary scan: at the upper right corner of T1 (45, 20), nowhere
\* (the left band one pixel thicker), and at the upper centre of T2 (25, 50).
FallbackInkPages ==
    {Image(275, 240, shade.white, 29, 0, 5, 0, {}, {}),
     Image(275, 240, shade.white, 30, 0, 5, 0, {}, {}),
     Image(470, 270, shade.white, 10, 35, 221, 0, {}, {})}

\* White pages where every zone of the page holds a grey patch, so that only
\* the last tier with overlap accepts a zone, at the upper right corner in the
\* sizes 310, 315 and 320: a grey strip makes the largest one the least white,
\* and a block of ink in the corner of the page either puts nine forbidden
\* pixels into each of them or none.
OverlapPages ==
    {Image(350, 340, shade.white, 0, 0, 0, 0, {Rect(341, 6, 350, 16)},
           {Rect(130, 130, 210, 210), Rect(10, 20, 20, 340)}),
     Image(350, 340, shade.white, 0, 0, 0, 0, {Rect(345, 0, 350, 5)},
           {Rect(130, 130, 210, 210), Rect(10, 20, 20, 340)})}

Images ==
    PatchPages \cup InkPages \cup LargePages \cup ThresholdPages \cup TiePages
        \cup FallbackInkPages \cup OverlapPages

\* The pages a processor is given: with stamp_size_min above stamp_size_max
\* no zone is ever accepted, and the uniform pages show it.
PagesFor(smax, smin) ==
    UniformPages(smax, smin) \cup (IF <<smax, smin>> = <<300, 200>> THEN Images ELSE {})

Init ==
    /\ \E cfg \in Configs : stamp_size_max = cfg[1] /\ stamp_size_min = cfg[2]
    /\ enable_ocr = FALSE
    /\ kernel_cache = << >>
    /\ call = [t \in Threads |-> Idle]
    /\ results = {}
    /\ low_dpi = 200
    /\ tmp_files = {}
    /\ request = [t \in Threads |-> [pc |-> "idle"]]

\* One call of find_whitest_space on a fresh processor.
Next ==
    \/ \E image \in PagesFor(stamp_size_max, stamp_size_min) : Call(1, image)
    \/ Step(1)

Spec == Init /\ [][Next]_vars

\* ------------------------------------------------------------------------
\* A document: process_document maps _process_single_page over the pages on
\* a pool of worker threads that share the PDFProcessor.
\* ------------------------------------------------------------------------

\* Number of pages of the document.
MaxPages == 3

\* The pages of the document, sized after the processor's smallest zone: a
\* white page, and a white page with a word-sized block of ink that only the
\* text detector sees and that lies in every zone of the page.
SharedPages(smin) ==
    LET n == smin + 2 * min_margin
    IN  {Uniform(n + 1, n + 1, shade.white),
         Image(n + 46, n + 26, shade.white, 0, 0, 0, 0,
               {Rect(n \div 2, n \div 2, n \div 2 + 10, n \div 2 + 10)}, {})}

Started == Cardinality(results) + Cardinality({t \in Threads : call[t].pc # "idle"})

Submit(t, image) == Started < MaxPages /\ Call(t, image)

NextShared ==
    \E t \in Threads :
        \/ \E image \in SharedPages(stamp_size_min) : Submit(t, image)
        \/ Step(t)
        \/ process_single_page(t)
        \/ Finish(t)

SpecShared == Init /\ [][NextShared]_vars

\* ------------------------------------------------------------------------
\* A long document handled page after page by one worker of the pool: the
\* kernel cache of the processor lives on from page to page.
\* ------------------------------------------------------------------------

\* Number of white pages of different sizes in the document.
CachePages == 7

\* The document: a page with a block of ink, white pages of growing size
\* (each asks for five kernels no other page asks for), and the first white
\* page once more.
CacheDocument(smin) ==
    LET n == smin + 2 * min_margin
    IN  << Image(n + 46, n + 26, shade.white, 0, 0, 0, 0,
                 {Rect(n \div 2, n \div 2, n \div 2 + 10, n \div 2 + 10)}, {}) >>
            \o [k \in 1 .. CachePages |-> Uniform(420 + 30 * k, 420 + 30 * k, shade.white)]
            \o << Uniform(450, 450, shade.white) >>

\* The next page of the document goes to the worker.
SubmitNext(t) ==
    /\ Cardinality(results) < Len(CacheDocument(stamp_size_min))
    /\ Call(t, CacheDocument(stamp_size_min)[Cardinality(results) + 1])

NextCache ==
    \/ SubmitNext(1)
    \/ Step(1)
    \/ process_single_page(1)
    \/ Finish(1)

SpecCache == Init /\ [][NextCache]_vars

\* ------------------------------------------------------------------------
\* A page and the same page turned by 180 degrees, placed one after the
\* other by the same processor.
\* ------------------------------------------------------------------------

\* The raster turned by 180 degrees: np.rot90(image, 2).
Rot180(image) ==
    LET turn(r) == Rect(image.width - r.x1, image.height - r.y1,
                        image.width - r.x0, image.height - r.y0)
    IN  Image(image.width, image.height, image.bg,
              image.right, image.bottom, image.left, image.top,
              {turn(r) : r \in image.blocks}, {turn(r) : r \in image.grey})

\* White pages with ink: a band along the left edge that leaves room for a
\* zone of 300 and no more, and a word-sized block in the middle of the page.
TurnedInkPages ==
    {Image(375, 430, shade.white, 60, 0, 0, 0, {}, {}),
     Image(256, 236, shade.white, 0, 0, 0, 0, {Rect(123, 113, 133, 123)}, {})}

RotationPages(smax, smin) ==
    UniformPages(smax, smin)
        \cup (IF <<smax, smin>> = <<300, 200>> THEN PatchPages \cup TurnedInkPages ELSE {})

\* The page is placed.
CallFirst(image) == results = {} /\ Call(1, image)

\* The page placed before is turned and placed again.
CallTurned ==
    \E e \in results : Cardinality(results) = 1 /\ Call(1, Rot180(e[1]))

NextRotation ==
    \/ \E image \in RotationPages(stamp_size_max, stamp_size_min) : CallFirst(image)
    \/ CallTurned
    \/ Step(1)
    \/ process_single_page(1)
    \/ Finish(1)

SpecRotation == Init /\ [][NextRotation]_vars

\* ------------------------------------------------------------------------
\* The client-node processor (src/packages/client-node/python/processor.py):
\* its find_whitest_space has the text detector, one line detector, the image
\* detector, a primary scan that returns at the first zone holding the
\* largest stamp, a corner fallback and a last resort.
\* ------------------------------------------------------------------------
client_white_threshold == 95
client_line_cutoff == 200
client_corner_inset == 40
client_corner_offset == 20
client_zone_pad == 20

\* Long horizontal rules, dilated vertically; none on a page of 100 px or less.
ClientLongLines(image) ==
    IF image.width > 100
    THEN Dilate(MorphOpen(Invert(Threshold(image, client_line_cutoff)),
                          Kernel(Max(100, image.width \div 3), 1)),
                Kernel(1, 15))
    ELSE NpZeros(image.height, image.width)

ClientForbiddenMask(image) ==
    BitwiseOr(BitwiseOr(BitwiseOr(NpZeros(image.height, image.width), TextMask(image)),
                        ClientLongLines(image)),
              ImageMask(image))

\* The kernel sizes one call of the client asks for, in order.
ClientKernelRequests(image) ==
    << <<30, 1>>, <<1, 15>>, <<3, 3>>, <<30, 15>> >>
        \o (IF image.width > 100
            THEN << <<Max(100, image.width \div 3), 1>>, <<1, 15>> >> ELSE << >>)
        \o (IF \E k \in EdgeContours(image) : k.area > min_image_area
            THEN << <<30, 30>> >> ELSE << >>)

\* list(range(max_zone_size, min_zone_size - 1, -5)); nothing is appended.
client_search_sizes(c) == RangeDown(max_zone_size(c), min_zone_size(c) - 1, size_step)

ClientScanStep(c, square_size) ==
    IF square_size >= c.stamp_size_max THEN Max(5, square_size \div 30)
    ELSE Max(10, square_size \div 20)

ClientAccepts(c, x, y, square_size) ==
    /\ NpSum(c.forbidden_mask, Zone(x, y, square_size)) = 0
    /\ RatioAbove(WhiteRatio(c, Zone(x, y, square_size)), client_white_threshold)
    /\ available_stamp_size(c, square_size) >= c.stamp_size_min

\* The scan's accumulator: the dict returned from inside the loops, if any,
\* best_position, best_stamp_size, and the number of zones looked at.
ClientStart ==
    [returned |-> None, best_position |-> None, best_stamp_size |-> 0, examined |-> 0]

\* Body of the x loop.
ClientVisit(c, x, y, square_size, acc) ==
    LET stamp == available_stamp_size(c, square_size)
        seen == [acc EXCEPT !.examined = @ + 1]
    IN  IF ~ClientAccepts(c, x, y, square_size) THEN seen
        ELSE IF stamp >= c.stamp_size_max
             THEN [seen EXCEPT !.returned = Placement(x, y, square_size, stamp)]
        ELSE IF stamp > acc.best_stamp_size
             THEN [seen EXCEPT !.best_position = Placement(x, y, square_size, stamp),
                               !.best_stamp_size = stamp]
        ELSE seen

ClientStops(c, acc) ==
    acc.returned # None \/ acc.best_stamp_size >= c.stamp_size_max

RECURSIVE ClientScanX(_, _, _, _, _)
ClientScanX(c, x, y, square_size, acc) ==
    IF x >= c.image.width - square_size THEN acc
    ELSE LET next == ClientVisit(c, x, y, square_size, acc)
         IN  IF ClientStops(c, next) THEN next
             ELSE ClientScanX(c, x + ClientScanStep(c, square_size), y, square_size, next)

RECURSIVE ClientScanY(_, _, _, _)
ClientScanY(c, y, square_size, acc) ==
    IF y >= c.image.height - square_size THEN acc
    ELSE LET next == ClientScanX(c, 0, y, square_size, acc)
         IN  IF ClientStops(c, next) THEN next
             ELSE ClientScanY(c, y + ClientScanStep(c, square_size), square_size, next)

\* The sizes the loop does not skip: `continue` when the page is not larger
\* than the zone in both directions.
client_sizes_in_page(c) ==
    SelectSeq(client_search_sizes(c),
              LAMBDA square_size : /\ c.image.width - square_size > 0
                                   /\ c.image.height - square_size > 0)

RECURSIVE ClientScanSizes(_, _, _, _)
ClientScanSizes(c, sizes, i, acc) ==
    IF i > Len(sizes) \/ ClientStops(c, acc) THEN acc
    ELSE ClientScanSizes(c, sizes, i + 1, ClientScanY(c, 0, sizes[i], acc))

ClientScan(c) == ClientScanSizes(c, client_sizes_in_page(c), 1, ClientStart)

\* The corners of the fallback, and the test a corner must pass.
client_corners(c) ==
    LET right == c.image.width - c.stamp_size_min - client_corner_inset
        low == c.image.height - c.stamp_size_min - client_corner_inset
    IN  << <<right, client_corner_offset>>, <<client_corner_offset, client_corner_offset>>,
           <<right, low>>, <<client_corner_offset, low>> >>

ClientCornerFits(c, corner) ==
    /\ 0 <= corner[1] /\ corner[1] < c.image.width - c.stamp_size_min
    /\ 0 <= corner[2] /\ corner[2] < c.image.height - c.stamp_size_min

ClientCornerPlacement(c, corner) ==
    Placement(corner[1], corner[2], c.stamp_size_min + client_zone_pad, c.stamp_size_min)

RECURSIVE ClientCornerFrom(_, _)
ClientCornerFrom(c, j) ==
    IF j > Len(client_corners(c)) THEN None
    ELSE IF ClientCornerFits(c, client_corners(c)[j])
         THEN ClientCornerPlacement(c, client_corners(c)[j])
    ELSE ClientCornerFrom(c, j + 1)

client_last_resort(c) ==
    Placement(c.image.width - c.stamp_size_min - client_corner_inset, client_corner_offset,
              c.stamp_size_min + client_zone_pad, c.stamp_size_min)

\* The masks of the client are built.
ClientDetect(t) ==
    /\ call[t].pc = "detect"
    /\ call' = [call EXCEPT ![t] =
                   [@ EXCEPT !.pc = "scan",
                             !.forbidden_mask = ClientForbiddenMask(call[t].image),
                             !.text_mask = TextMask(call[t].image),
                             !.white_binary = WhiteBinary(call[t].image)]]
    /\ kernel_cache' = LruGetAll(kernel_cache, ClientKernelRequests(call[t].image))
    /\ UNCHANGED <<low_dpi, tmp_files, request,
                   stamp_size_max, stamp_size_min, enable_ocr, results>>

\* What the scan leaves: the dict returned from inside the loops, or the one
\* built from best_position, or nothing.
ClientFound(acc) ==
    IF acc.returned # None THEN acc.returned ELSE acc.best_position

\* After the scan: return the zone it found, or go on to the corners.
ClientScanned(t, acc) ==
    IF ClientFound(acc) # None
    THEN /\ call' = [call EXCEPT ![t] =
                        [Return(@, "PRIMARY", ClientFound(acc))
                            EXCEPT !.examined = acc.examined]]
         /\ results' = Record(results, call[t].image, ClientFound(acc))
    ELSE /\ call' = [call EXCEPT ![t] =
                        [@ EXCEPT !.pc = "corners", !.examined = acc.examined]]
         /\ UNCHANGED results

\* The primary scan of the client.
ClientPrimary(t) ==
    /\ call[t].pc = "scan"
    /\ ClientScanned(t, ClientScan(call[t]))
    /\ UNCHANGED <<low_dpi, tmp_files, request,
                   stamp_size_max, stamp_size_min, enable_ocr, kernel_cache>>

\* The corner fallback: the first corner that passes the test.
ClientCorners(t) ==
    /\ call[t].pc = "corners"
    /\ Tier(t, "CORNER", ClientCornerFrom(call[t], 1), "last")

\* The last resort.
ClientLastResort(t) ==
    /\ call[t].pc = "last"
    /\ Returns(t, "LAST", client_last_resort(call[t]))

ClientStep(t) ==
    \/ ClientDetect(t)
    \/ ClientPrimary(t)
    \/ ClientCorners(t)
    \/ ClientLastResort(t)

\* Page sides around the smallest zone of the client (110) less the margin of
\* 10, around the zone with the offset of 20, and larger ones.
ClientSides == Sides(100) \cup Sides(130) \cup {160}

\* Uniform pages, a large white page, and white pages with a block of ink.
ClientPages ==
    {Uniform(w, h, bg) : w \in ClientSides, h \in ClientSides, bg \in Shades}
        \cup {Uniform(320, 320, shade.white),
              Image(150, 140, shade.white, 0, 0, 0, 0, {Rect(130, 120, 140, 130)}, {})}

\* PDFProcessor() of the client: stamps of 90 to 300.
InitClient ==
    /\ stamp_size_max = 300 /\ stamp_size_min = 90
    /\ enable_ocr = FALSE
    /\ kernel_cache = << >>
    /\ call = [t \in Threads |-> Idle]
    /\ results = {}
    /\ low_dpi = 200
    /\ tmp_files = {}
    /\ request = [t \in Threads |-> [pc |-> "idle"]]

\* One call of the client's find_whitest_space on a fresh processor.
NextClient ==
    \/ \E image \in ClientPages : Call(1, image)
    \/ ClientStep(1)

SpecClient == InitClient /\ [][NextClient]_vars

\* ------------------------------------------------------------------------
\* ProcessPDF: the requests the worker threads of the gRPC server handle, all
\* on the one PDFProcessor of the servicer.  A request downloads the PDF and
\* the stamp into temporary files, has process_document rasterize and stamp
\* the pages (every page on a pool of threads, or the first page alone), and
\* answers with the stamped PDF and the coordinates.  Any step may raise.
\* The placement of a page is kept as the page and the DPI of its raster.
\* ------------------------------------------------------------------------

\* Number of pages of a document whose tasks are followed one by one; the
\* pages beyond are handled like them.
TrackedPages == 2

\* tempfile.NamedTemporaryFile(suffix=..., delete=False).name: the file that
\* thread t creates for its request, one per kind and page.
TmpFile(t, kind, page_num) == [thread |-> t, kind |-> kind, page_num |-> page_num]

\* self.low_dpi after the adaptive choice of process_document.
adaptive_dpi(num_pages) ==
    IF num_pages > 300 THEN 120
    ELSE IF num_pages > 100 THEN 150
    ELSE IF num_pages > 20 THEN 150
    ELSE 200

\* ProcessPDF(request, context) is entered by worker thread t.
ProcessPDF(t, num_pages, stamp_only_first_page) ==
    /\ request[t].pc = "idle"
    /\ request' = [request EXCEPT ![t] =
                      [pc |-> "download", num_pages |-> num_pages,
                       stamp_only_first_page |-> stamp_only_first_page,
                       page_args |-> 1 .. (IF stamp_only_first_page THEN 1
                                           ELSE Min(num_pages, TrackedPages)),
                       pdf_path |-> None, stamp_path |-> None,
                       processed_pdf_path |-> None,
                       futures |-> << >>, dpi |-> << >>, finished |-> << >>, pdf |-> << >>,
                       coordinates |-> << >>, response |-> None]]
    /\ UNCHANGED <<low_dpi, tmp_files, stamp_size_max, stamp_size_min, enable_ocr,
                   kernel_cache, call, results>>

\* The PDF and the stamp are downloaded and written to temporary files; the
\* download of either may raise.
Download(t) ==
    /\ request[t].pc = "download"
    /\ \/ /\ request' = [request EXCEPT ![t].pc = "process",
                                       ![t].pdf_path = TmpFile(t, "pdf", 0),
                                       ![t].stamp_path = TmpFile(t, "stamp", 0),
                                       ![t].futures = [p \in request[t].page_args |-> None],
                                       ![t].dpi = [p \in request[t].page_args |-> 0]]
          /\ tmp_files' = tmp_files \cup {TmpFile(t, "pdf", 0), TmpFile(t, "stamp", 0)}
       \/ /\ request' = [request EXCEPT ![t].pc = "except"]
          /\ UNCHANGED tmp_files
       \/ /\ request' = [request EXCEPT ![t].pc = "except", ![t].pdf_path = TmpFile(t, "pdf", 0)]
          /\ tmp_files' = tmp_files \cup {TmpFile(t, "pdf", 0)}
    /\ UNCHANGED <<low_dpi, stamp_size_max, stamp_size_min, enable_ocr, kernel_cache,
                   call, results>>

\* process_document up to the submission of the pages: the first page alone,
\* at the DPI the processor has, or every page after the adaptive choice.
process_document(t) ==
    /\ request[t].pc = "process"
    /\ request' = [request EXCEPT ![t].pc = IF request[t].stamp_only_first_page
                                            THEN "first_page" ELSE "pages"]
    /\ low_dpi' = IF request[t].stamp_only_first_page THEN low_dpi
                  ELSE adaptive_dpi(request[t].num_pages)
    /\ UNCHANGED <<tmp_files, stamp_size_max, stamp_size_min, enable_ocr, kernel_cache,
                   call, results>>

\* _process_single_page((page_num, ...)): the page is rasterized at
\* self.low_dpi, placed, stamped and saved as a PNG; or it raises.  The
\* tasks of a pool end in any order, kept in `finished`.
PageTask(t, page_num) ==
    /\ request[t].pc \in {"pages", "first_page"}
    /\ page_num \in request[t].page_args
    /\ request[t].futures[page_num] = None
    /\ \/ /\ request' = [request EXCEPT
                            ![t].futures[page_num] =
                                [page_num |-> page_num, path |-> TmpFile(t, "png", page_num),
                                 coords |-> [page |-> page_num, dpi |-> low_dpi]],
                            ![t].dpi[page_num] = low_dpi,
                            ![t].finished = Append(@, page_num)]
          /\ tmp_files' = tmp_files \cup {TmpFile(t, "png", page_num)}
       \/ /\ request' = [request EXCEPT ![t].futures[page_num] = Raised("Exception"),
                                       ![t].dpi[page_num] = low_dpi,
                                       ![t].finished = Append(@, page_num)]
          /\ UNCHANGED tmp_files
    /\ UNCHANGED <<low_dpi, stamp_size_max, stamp_size_min, enable_ocr, kernel_cache,
                   call, results>>

\* A sort of the page results that puts the last page first.
SortedByPageDescending(page_results) ==
    [k \in 1 .. Len(page_results) |->
        page_results[CHOOSE i \in 1 .. Len(page_results) :
            Cardinality({j \in 1 .. Len(page_results) :
                            page_results[j].page_num > page_results[i].page_num
                                \/ (page_results[j].page_num = page_results[i].page_num
                                        /\ j < i)}) = k - 1]]

\* results.sort(key=lambda x: x[0])
SortedByPage(page_results) ==
    [k \in 1 .. Len(page_results) |->
        page_results[CHOOSE i \in 1 .. Len(page_results) :
            Cardinality({j \in 1 .. Len(page_results) :
                            page_results[j].page_num < page_results[i].page_num
                                \/ (page_results[j].page_num = page_results[i].page_num
                                        /\ j < i)}) = k - 1]]

\* The parallel path after the pool: executor.map hands the results over in
\* the order of page_args and raises what a page raised; the results are
\* sorted, the PNGs are assembled into the output PDF and removed.  The
\* assembly may raise once the output file exists.
Gather(t) ==
    /\ request[t].pc = "pages"
    /\ \/ /\ \A p \in request[t].page_args :
                 request[t].futures[p] # None /\ request[t].futures[p] # Raised("Exception")
          /\ LET page_results == SortedByPage([i \in request[t].page_args |->
                                                   request[t].futures[i]])
             IN  \/ /\ request' = [request EXCEPT
                                      ![t].pc = "respond",
                                      ![t].processed_pdf_path = TmpFile(t, "out", 0),
                                      ![t].pdf = [i \in 1 .. Len(page_results) |->
                                                     page_results[i].page_num],
                                      ![t].coordinates = [i \in 1 .. Len(page_results) |->
                                                             page_results[i].coords]]
                    /\ tmp_files' = (tmp_files \cup {TmpFile(t, "out", 0)})
                                        \ {page_results[i].path : i \in 1 .. Len(page_results)}
                 \/ /\ request' = [request EXCEPT ![t].pc = "except"]
                    /\ tmp_files' = tmp_files \cup {TmpFile(t, "out", 0)}
       \/ /\ \E p \in request[t].page_args :
                 /\ request[t].futures[p] = Raised("Exception")
                 /\ \A q \in 1 .. (p - 1) : request[t].futures[q] # None
          /\ request' = [request EXCEPT ![t].pc = "except"]
          /\ UNCHANGED tmp_files
    /\ UNCHANGED <<low_dpi, stamp_size_max, stamp_size_min, enable_ocr, kernel_cache,
                   call, results>>

\* The first page alone: its PNG becomes a one-page PDF, which is merged with
\* the other pages of the original; the PNG and the one-page PDF are removed.
\* The page, the one-page PDF or the merge may raise.
FirstPage(t) ==
    /\ request[t].pc = "first_page"
    /\ request[t].futures[1] # None
    /\ \/ /\ request[t].futures[1] # Raised("Exception")
          /\ LET output_path == IF request[t].num_pages > 1 THEN TmpFile(t, "merged", 0)
                                ELSE TmpFile(t, "first", 0)
             IN  /\ request' = [request EXCEPT
                                   ![t].pc = "respond",
                                   ![t].processed_pdf_path = output_path,
                                   ![t].pdf = [i \in 1 .. Min(request[t].num_pages,
                                                              TrackedPages) |-> i],
                                   ![t].coordinates = <<request[t].futures[1].coords>>]
                 /\ tmp_files' = (tmp_files \cup {output_path}) \ {request[t].futures[1].path}
       \/ /\ request[t].futures[1] # Raised("Exception")
          /\ request' = [request EXCEPT ![t].pc = "except"]
          /\ tmp_files' = tmp_files \cup {TmpFile(t, "first", 0)}
       \/ /\ request[t].futures[1] = Raised("Exception")
          /\ request' = [request EXCEPT ![t].pc = "except"]
          /\ UNCHANGED tmp_files
    /\ UNCHANGED <<low_dpi, stamp_size_max, stamp_size_min, enable_ocr, kernel_cache,
                   call, results>>

\* The end of ProcessPDF: the response with the PDF and the coordinates, or
\* the INTERNAL error; then the finally block removes pdf_path, stamp_path
\* and processed_pdf_path.
Respond(t) ==
    /\ request[t].pc \in {"respond", "except"}
    /\ request' = [request EXCEPT
                      ![t].pc = "returned",
                      ![t].response =
                          IF request[t].pc = "except" THEN [code |-> "INTERNAL"]
                          ELSE [code |-> "OK", processed_pdf |-> request[t].pdf,
                                coordinates |->
                                    [i \in 1 .. Len(request[t].coordinates) |->
                                        [page_number |-> i,
                                         coord |-> request[t].coordinates[i]]]]]
    /\ tmp_files' = tmp_files \ {request[t].pdf_path, request[t].stamp_path,
                                 request[t].processed_pdf_path}
    /\ UNCHANGED <<low_dpi, stamp_size_max, stamp_size_min, enable_ocr, kernel_cache,
                   call, results>>

\* PDFServicer(): the processor is built with low_dpi=200, stamps of 200 to 300.
InitDocument ==
    /\ stamp_size_max = 300 /\ stamp_size_min = 200
    /\ enable_ocr = FALSE
    /\ kernel_cache = << >>
    /\ call = [t \in Threads |-> Idle]
    /\ results = {}
    /\ low_dpi = 200
    /\ tmp_files = {}
    /\ request = [t \in Threads |-> [pc |-> "idle"]]

\* Each worker thread handles one request, for a document of 1, 2, 21 or 301
\* pages, of which every page or the first one is stamped.
NextDocument ==
    \E t \in Threads :
        \/ \E num_pages \in {1, 2, 21, 301}, stamp_only_first_page \in BOOLEAN :
               ProcessPDF(t, num_pages, stamp_only_first_page)
        \/ Download(t)
        \/ process_document(t)
        \/ \E page_num \in 1 .. TrackedPages : PageTask(t, page_num)
        \/ Gather(t)
        \/ FirstPage(t)
        \/ Respond(t)

SpecDocument == InitDocument /\ [][NextDocument]_vars

\* One request alone on the server.
NextRequest ==
    \/ \E num_pages \in {1, 2, 21, 301}, stamp_only_first_page \in BOOLEAN :
           ProcessPDF(1, num_pages, stamp_only_first_page)
    \/ Download(1)
    \/ process_document(1)
    \/ \E page_num \in 1 .. TrackedPages : PageTask(1, page_num)
    \/ Gather(1)
    \/ FirstPage(1)
    \/ Respond(1)

SpecRequest == InitDocument /\ [][NextRequest]_vars

\* ------------------------------------------------------------------------
\* Properties
\* ------------------------------------------------------------------------

\* The preconditions of the engine: the page holds the smallest zone and the
\* stamp sizes are ordered.
Preconditions(c) ==
    /\ c.image.width >= c.stamp_size_min + 2 * min_margin
    /\ c.image.height >= c.stamp_size_min + 2 * min_margin
    /\ c.stamp_size_min <= c.stamp_size_max

Entered(c) == c.pc # "idle"

Done(c) == c.pc = "done"

IsUniform(c, bg) == c.image = Uniform(c.image.width, c.image.height, bg)

\* C1: under the preconditions the zone returned lies in the page and the
\* stamp lies between stamp_size_min and stamp_size_max, whichever tier
\* returned it.
PlacementInPage ==
    \A t \in Threads :
        Done(call[t]) /\ Preconditions(call[t]) =>
            /\ 0 <= call[t].result.x
            /\ 0 <= call[t].result.y
            /\ call[t].result.x + call[t].result.size <= call[t].image.width
            /\ call[t].result.y + call[t].result.size <= call[t].image.height
            /\ call[t].stamp_size_min <= call[t].result.stamp_size
            /\ call[t].result.stamp_size <= call[t].stamp_size_max

\* A forced placement on a page exactly as wide as the smallest zone.
PlacementInPageWitness ==
    \E t \in Threads :
        /\ Done(call[t]) /\ Preconditions(call[t])
        /\ call[t].tier = "T4"
        /\ call[t].result.x + call[t].result.size = call[t].image.width

\* C2: under the preconditions a call neither raises nor comes to index an
\* empty list of sizes, and what it returns is a placement, never None: the
\* forced tier returns one when every tier before it found nothing.
AlwaysReturns ==
    \A t \in Threads :
        Entered(call[t]) /\ Preconditions(call[t]) =>
            /\ call[t].pc # "raised"
            /\ call[t].raised = NoName
            /\ call[t].pc = "primary" => SearchRange(call[t]) # << >>
            /\ call[t].pc = "T1" => FallbackRange(call[t]) # << >>
            /\ Done(call[t]) =>
                   /\ call[t].result # None
                   /\ DOMAIN call[t].result = {"x", "y", "size", "stamp_size"}

\* A call that went through every tier and returned the forced placement.
AlwaysReturnsWitness ==
    /\ Done(call[1]) /\ Preconditions(call[1])
    /\ call[1].tier = "T4"
    /\ call[1].best_position = None
    /\ call[1].result # None
    /\ call[1].examined > 0

\* C3: every placement returned has stamp = min(zone - 2 * min_margin,
\* stamp_size_max).
StampFromZone ==
    \A t \in Threads :
        Done(call[t]) =>
            call[t].result.stamp_size
                = Min(call[t].result.size - 2 * min_margin, call[t].stamp_size_max)

\* A fallback tier returns a zone between the smallest and the largest.
StampFromZoneWitness ==
    \E t \in Threads :
        /\ Done(call[t])
        /\ call[t].tier = "T3a"
        /\ call[t].result.size > call[t].stamp_size_min + 2 * min_margin
        /\ call[t].result.stamp_size < call[t].stamp_size_max

\* C4: a page smaller than stamp_size_min + 2 * min_margin in either axis is
\* refused with InvalidRaster, and no placement is returned.
SmallRasterRefused ==
    \A t \in Threads :
        (/\ Entered(call[t])
         /\ \/ call[t].image.width < call[t].stamp_size_min + 2 * min_margin
            \/ call[t].image.height < call[t].stamp_size_min + 2 * min_margin)
            => /\ ~Done(call[t])
               /\ call[t].result = None
               /\ call[t].raised \in {NoName, "InvalidRaster"}

\* C5: with stamp_size_min above stamp_size_max the call is refused with
\* InvalidConfig before any zone is examined and returns no placement.
BadConfigRefused ==
    \A t \in Threads :
        (Entered(call[t]) /\ call[t].stamp_size_min > call[t].stamp_size_max)
            => /\ ~Done(call[t])
               /\ call[t].examined = 0
               /\ call[t].raised \in {NoName, "InvalidConfig"}

\* C6: the calls made on one raster all have the same outcome, whatever the
\* kernel cache held, whatever pages came before, whatever ran beside them.
Deterministic ==
    \A a \in results : \A b \in results : a[1] = b[1] => a[3] = b[3]

\* Two calls on the page with ink and one on another page have returned.
DeterministicWitness ==
    \E a \in results : \E b \in results : \E other \in results :
        /\ a[1] = b[1] /\ a[2] = 1 /\ b[2] = 2
        /\ a[1].blocks # {}
        /\ a[3] = b[3] /\ a[3] # Raised("IndexError")
        /\ other[1] # a[1]
        /\ kernel_cache # << >>

\* C7 as stated: on a uniformly white page that satisfies the preconditions
\* the placement comes from the primary scan with stamp = stamp_size_max.
WhitePageGivesMaxStamp ==
    \A t \in Threads :
        Done(call[t]) /\ Preconditions(call[t]) /\ IsUniform(call[t], shade.white) =>
            /\ call[t].tier = "PRIMARY"
            /\ call[t].result.stamp_size = call[t].stamp_size_max

\* Some size the scan tries holds the largest stamp and is smaller than the page.
HoldsLargestStamp(c) ==
    \E i \in 1 .. Len(search_sizes_to_try(c)) :
        /\ search_sizes_to_try(c)[i] >= c.stamp_size_max + 2 * min_margin
        /\ c.image.width > search_sizes_to_try(c)[i]
        /\ c.image.height > search_sizes_to_try(c)[i]

\* C7, amended: on a uniformly white page wider and higher than a size of
\* the scan that holds the largest stamp, the placement comes from the
\* primary scan with stamp = stamp_size_max; on the page of 2100 x 2970 with
\* stamps of 200 to 300 it is (0, 0), zone 410, stamp 300, the first zone
\* examined.
LargeWhitePageGivesMaxStamp ==
    \A t \in Threads :
        (/\ Done(call[t]) /\ Preconditions(call[t]) /\ IsUniform(call[t], shade.white)
         /\ HoldsLargestStamp(call[t]))
            => /\ call[t].tier = "PRIMARY"
               /\ call[t].result.stamp_size = call[t].stamp_size_max
               /\ (/\ call[t].image.width = 2100 /\ call[t].image.height = 2970
                   /\ call[t].stamp_size_min = 200 /\ call[t].stamp_size_max = 300)
                      => /\ call[t].result = Placement(0, 0, 410, 300)
                         /\ call[t].examined = 1

\* The page of 2100 x 2970 has been placed.
LargeWhitePageWitness ==
    \E t \in Threads :
        /\ Done(call[t]) /\ IsUniform(call[t], shade.white)
        /\ call[t].image.width = 2100 /\ call[t].image.height = 2970
        /\ call[t].tier = "PRIMARY"

\* C8: on a uniformly black page that satisfies the preconditions no tier
\* before the last finds a zone, and the forced placement has the smallest
\* zone, stamp_size_min, and lies within forced_offset of the upper and the
\* right edge.
BlackPageForced ==
    \A t \in Threads :
        Done(call[t]) /\ Preconditions(call[t]) /\ IsUniform(call[t], shade.ink) =>
            /\ call[t].tier = "T4"
            /\ call[t].best_position = None
            /\ call[t].result.size = call[t].stamp_size_min + 2 * min_margin
            /\ call[t].result.stamp_size = call[t].stamp_size_min
            /\ call[t].result.y <= forced_offset
            /\ call[t].result.x + call[t].result.size <= call[t].image.width
            /\ call[t].result.x + call[t].result.size >= call[t].image.width - forced_offset

\* A black page with room to the left of the forced zone.
BlackPageForcedWitness ==
    \E t \in Threads :
        /\ Done(call[t]) /\ Preconditions(call[t]) /\ IsUniform(call[t], shade.ink)
        /\ call[t].result.x > 0
        /\ call[t].result.y = forced_offset

\* A page on which the forced zone needs no cut, with stamps of 200 to 300.
Uncut(c) ==
    /\ c.stamp_size_min = 200 /\ c.stamp_size_max = 300
    /\ c.image.width >= 210 + forced_offset
    /\ c.image.height >= 210 + forced_offset

\* C9 as stated: the forced placement on such a page is (W - 210, 20), zone
\* 210, stamp 200.
ForcedFlushRight ==
    \A t \in Threads :
        Done(call[t]) /\ call[t].tier = "T4" /\ Uncut(call[t]) =>
            call[t].result = Placement(call[t].image.width - 210, 20, 210, 200)

\* C9, amended: the forced placement on such a page is (W - 230, 20), zone
\* 210, stamp 200; in general the zone of side stamp_size_min + 2 * min_margin
\* lies 20 pixels from the right edge, or at the left edge of a narrower
\* page, and 20 pixels from the upper edge, or against the lower edge (at the
\* upper one at most) of a page too low for that.
ForcedOffsetRight ==
    \A t \in Threads :
        Done(call[t]) /\ call[t].tier = "T4" =>
            /\ Uncut(call[t]) =>
                   /\ call[t].result = Placement(call[t].image.width - 230, 20, 210, 200)
                   /\ call[t].result.x + call[t].result.size = call[t].image.width - 20
            /\ call[t].result.size = call[t].stamp_size_min + 2 * min_margin
            /\ call[t].result.stamp_size = call[t].stamp_size_min
            /\ call[t].result.x = Max(0, call[t].image.width - call[t].result.size - 20)
            /\ call[t].result.y =
                   IF 20 + call[t].result.size <= call[t].image.height THEN 20
                   ELSE Max(0, call[t].image.height - call[t].result.size)

\* A grey page on which the forced zone needs no cut.
ForcedOffsetRightWitness ==
    \E t \in Threads :
        /\ Done(call[t]) /\ call[t].tier = "T4" /\ Uncut(call[t])
        /\ IsUniform(call[t], shade.grey)
        /\ call[t].result.x = call[t].image.width - 230

\* The zone at (0, 0) as large as the page is clean.
CleanExactFit(c) ==
    /\ c.image.width = c.stamp_size_min + 2 * min_margin
    /\ c.image.height = c.stamp_size_min + 2 * min_margin
    /\ c.stamp_size_min <= c.stamp_size_max
    /\ NpSum(c.forbidden_mask, Zone(0, 0, c.image.width)) = 0
    /\ CountNonZero(c.white_binary, Zone(0, 0, c.image.width)) = c.image.width * c.image.width

\* C10: on a page exactly as large as the smallest zone the primary scan
\* examines the zone at (0, 0), and when it is clean that zone is returned as
\* a candidate of the scan, not by forcing.
ExactFitIsScanned ==
    \A t \in Threads :
        Done(call[t]) /\ CleanExactFit(call[t]) =>
            /\ call[t].examined >= 1
            /\ call[t].tier = "PRIMARY"
            /\ call[t].result = Placement(0, 0, call[t].image.width, call[t].stamp_size_min)

\* Two masks of one page set the same pixels.
SamePixels(a, b) ==
    /\ CountNonZero(a, Rect(0, 0, a.w, a.h))
           = CountNonZero(BitwiseOr(a, b), Rect(0, 0, a.w, a.h))
    /\ CountNonZero(b, Rect(0, 0, a.w, a.h))
           = CountNonZero(BitwiseOr(a, b), Rect(0, 0, a.w, a.h))

\* The masks are built.
Searching(c) == c.forbidden_mask # None

\* The line mask of a page: horizontal and vertical rules.
LineMask(image) == BitwiseOr(HorizontalLines(image), VerticalLines(image))

\* C11: the forbidden mask of a call sets exactly the pixels that the text,
\* line, image or QR mask sets, and exactly the pixels that one of the masks
\* returned beside it (text, image, QR) sets: the line mask, which is not
\* returned, lies within the text mask.
ForbiddenIsUnion ==
    \A t \in Threads :
        Searching(call[t]) =>
            /\ SamePixels(call[t].forbidden_mask,
                          BitwiseOr(BitwiseOr(BitwiseOr(call[t].text_mask,
                                                        LineMask(call[t].image)),
                                              call[t].image_mask),
                                    call[t].qrcode_mask))
            /\ SamePixels(call[t].forbidden_mask,
                          BitwiseOr(BitwiseOr(call[t].text_mask, call[t].image_mask),
                                    call[t].qrcode_mask))

\* A page with ink on which the line detector fires and part of the page is
\* left free has been placed.
ForbiddenIsUnionWitness ==
    \E t \in Threads :
        /\ Done(call[t])
        /\ CountNonZero(LineMask(call[t].image), Page(call[t].image)) > 0
        /\ CountNonZero(call[t].forbidden_mask, Page(call[t].image)) > 0
        /\ CountNonZero(call[t].forbidden_mask, Page(call[t].image))
               < call[t].image.width * call[t].image.height

\* Where a call may go next from each of its positions.
After(pc) ==
    CASE pc = "idle" -> {"detect"}
      [] pc = "detect" -> {"primary"}
      [] pc = "primary" -> {"refine", "T1", "raised"}
      [] pc = "refine" -> {"done"}
      [] pc = "T1" -> {"done", "T2", "raised"}
      [] pc = "T2" -> {"done", "T3a"}
      [] pc = "T3a" -> {"done", "T3b"}
      [] pc = "T3b" -> {"done", "T4"}
      [] pc = "T4" -> {"done"}
      [] pc = "done" -> {"stamped", "unstamped"}
      [] pc = "stamped" -> {"idle"}
      [] pc = "unstamped" -> {"idle"}
      [] pc = "raised" -> {"idle"}

\* The first tier, in the order PRIMARY, T1, T2, T3a, T3b, T4, whose search
\* finds a zone on the page of the call.
FirstFinding(c) ==
    IF PrimaryScan(c).best_position # None THEN "PRIMARY"
    ELSE IF CornerFallback(c) # None THEN "T1"
    ELSE IF RescueFallback(c) # None THEN "T2"
    ELSE IF StrictEmergency(c) # None THEN "T3a"
    ELSE IF OverlapEmergency(c) # None THEN "T3b"
    ELSE "T4"

\* The tier of a call that is searching, None before and after.
ActiveTier(c) ==
    IF c.pc \in {"primary", "refine"} THEN "PRIMARY"
    ELSE IF c.pc \in {"T1", "T2", "T3a", "T3b", "T4"} THEN c.pc
    ELSE NoName

\* C12: a call moves through PRIMARY, T1, T2, T3a, T3b, T4 in that order,
\* one tier at a time and never back; it leaves a tier for the next one only
\* when the tier found nothing, and once a tier has returned a placement no
\* tier is active any more; the placement comes from the first tier in that
\* order whose search finds a zone.
TiersOneWay ==
    /\ [](\A t \in Threads :
              /\ Done(call[t]) =>
                     /\ call[t].tier = FirstFinding(call[t])
                     /\ ActiveTier(call[t]) = NoName
              /\ ActiveTier(call[t]) # NoName => call[t].result = None)
    /\ [][\A t \in Threads :
              \/ call'[t].pc = call[t].pc
              \/ call'[t].pc \in After(call[t].pc)]_vars

\* A call went through every tier down to the one that tolerates overlap.
TiersOneWayWitness ==
    \E t \in Threads :
        /\ Done(call[t])
        /\ call[t].tier = "T3b"
        /\ call[t].examined > 0

\* C13: from the moment find_whitest_space is entered until it has returned
\* or raised, the raster it was given stays as it was, pixel for pixel,
\* whichever tier is at work.
RasterUntouched ==
    [][\A t \in Threads :
          Entered(call[t]) /\ Entered(call[t])' => call'[t].image = call[t].image]_vars

\* A page with light grey patches, none of them white enough for the white
\* mask, has gone through the masks and the tiers down to the second rescue.
RasterUntouchedWitness ==
    \E t \in Threads :
        /\ Done(call[t])
        /\ call[t].image.grey # {}
        /\ call[t].tier = "T2"
        /\ CountNonZero(call[t].white_binary, Page(call[t].image))
               < call[t].image.width * call[t].image.height

\* The keys of a list of cache keys.
Keys(q) == {q[i] : i \in DOMAIN q}

\* The keys of a list of requests, each once, in the order of their last use.
RECURSIVE LastUse(_)
LastUse(req) ==
    IF req = << >> THEN << >>
    ELSE IF Head(req) \in Keys(Tail(req)) THEN LastUse(Tail(req))
    ELSE <<Head(req)>> \o LastUse(Tail(req))

\* What a cache of at most lru_maxsize entries that evicts the least recently
\* used one makes of `old` when the kernels `req` are asked for: every kernel
\* asked for is held, most recently used last; of the others the oldest are
\* gone, and only as many as the bound forces.
LruOutcome(old, new, req) ==
    LET others(q) == SelectSeq(q, LAMBDA k : k \notin Keys(req))
    IN  /\ new = others(new) \o LastUse(req)
        /\ Len(new) = Min(lru_maxsize, Cardinality(Keys(old) \cup Keys(req)))
        /\ \E d \in 0 .. Len(others(old)) :
               others(new) = SubSeq(others(old), d + 1, Len(others(old)))

\* C14: the kernel cache holds at most 32 kernels, each once; a call leaves
\* in it the kernels it asked for and drops the least recently used ones of
\* the others when the bound is reached, and nothing else changes the cache;
\* every call on one raster has the same outcome, whether its kernels were
\* cached, built anew or evicted in between.
CacheIsLru ==
    /\ [](/\ Len(kernel_cache) <= lru_maxsize
          /\ Cardinality(Keys(kernel_cache)) = Len(kernel_cache)
          /\ \A a \in results : \A b \in results :
                 a[1] = b[1] => a[3] = b[3])
    /\ [][\A t \in Threads :
              IF call[t].pc = "detect" /\ call'[t].pc = "primary"
              THEN LruOutcome(kernel_cache, kernel_cache',
                              KernelRequests(call[t].image, enable_ocr))
              ELSE call'[t] # call[t] => kernel_cache' = kernel_cache]_vars

\* The cache is full, kernels of the first white page were evicted, and that
\* page has been placed a second time.
CacheIsLruWitness ==
    /\ Len(kernel_cache) = lru_maxsize
    /\ \E a \in results : \E b \in results :
           /\ a[1] = b[1] /\ a[2] = 1 /\ b[2] = 2
           /\ a[3] = b[3] /\ a[3] # Raised("IndexError")
           /\ Keys(KernelRequests(a[1], FALSE)) \cap Keys(kernel_cache) # {}
    /\ \E c \in results :
           ~(Keys(KernelRequests(c[1], FALSE)) \subseteq Keys(kernel_cache))

\* A placement turned by 180 degrees with the page.
RotatePlacement(p, image) ==
    Placement(image.width - p.size - p.x, image.height - p.size - p.y,
              p.size, p.stamp_size)

\* The outcome of a call is a placement.
IsPlacement(outcome) == DOMAIN outcome = {"x", "y", "size", "stamp_size"}

\* Two outcomes, one for a page and one for the page turned.
Turned(a, b) == a # b /\ b[1] = Rot180(a[1])

FullyProcessed ==
    /\ Cardinality(results) = Len(CacheDocument(stamp_size_min))
    /\ \A e \in results : IsPlacement(e[3])
    /\ \A t \in Threads : call[t].pc \in {"idle", "stamped", "unstamped"}

\* C16: whatever find_whitest_space returns passes the test of
\* _process_single_page (a position, x >= 0, y >= 0), so that no page is left
\* unstamped and every page of a document handled to its end was stamped.
EveryPageStamped ==
    /\ \A t \in Threads :
           /\ call[t].pc # "unstamped"
           /\ call[t].pc \in {"done", "stamped"} =>
                  /\ call[t].result # None
                  /\ call[t].result.x >= 0
                  /\ call[t].result.y >= 0
    /\ \A e \in results : IsPlacement(e[3]) => e[3].x >= 0 /\ e[3].y >= 0
    /\ FullyProcessed =>
           \A t \in Threads : call[t].pc \in {"idle", "stamped"}

\* The last page of the document has been stamped, the page with the forced
\* placement before it.
EveryPageStampedWitness ==
    /\ FullyProcessed
    /\ call[1].pc = "stamped"
    /\ \E e \in results :
           e[1].blocks # {} /\ e[3].size = stamp_size_min + 2 * min_margin

\* C17: every placement the client's find_whitest_space returns for a page
\* that holds its smallest zone lies in the page, 0 <= x, 0 <= y,
\* x + zone <= W, y + zone <= H, with a stamp of stamp_size_min to
\* stamp_size_max, the corner fallback's and the last resort's included.
ClientPlacementInPage ==
    \A t \in Threads :
        Done(call[t]) /\ Preconditions(call[t]) =>
            /\ 0 <= call[t].result.x
            /\ 0 <= call[t].result.y
            /\ call[t].result.x + call[t].result.size <= call[t].image.width
            /\ call[t].result.y + call[t].result.size <= call[t].image.height
            /\ call[t].stamp_size_min <= call[t].result.stamp_size
            /\ call[t].result.stamp_size <= call[t].stamp_size_max

\* C18: in the primary scan of the server a candidate (x, y, s) is accepted
\* exactly when the forbidden mask sums to zero over its square and its
\* whiteness is strictly above theta, theta = 0.95 for
\* s >= stamp_size_max + 2 * min_margin - 20 and 0.98 otherwise; a candidate
\* whose whiteness equals theta is rejected.  Seen from the outcome of the
\* scan: it leaves a best_position exactly when some candidate of its grid
\* passes that test, and the best_position passes it.
Theta(c, square_size) ==
    IF NearMax(c, square_size) THEN white_threshold_large ELSE white_threshold_small

\* range(0, stop, step)
RangeUp(stop, step) ==
    IF stop <= 0 THEN {} ELSE {k * step : k \in 0 .. (stop - 1) \div step}

GridSizes(c) ==
    {search_sizes_to_try(c)[i] : i \in 1 .. Len(search_sizes_to_try(c))}

OnGrid(c, x, y, square_size) ==
    /\ square_size \in GridSizes(c)
    /\ x \in RangeUp(c.image.width - square_size, ScanStep(c, square_size))
    /\ y \in RangeUp(c.image.height - square_size, ScanStep(c, square_size))

NoForbiddenPixel(c, x, y, square_size) ==
    NpSum(c.forbidden_mask, Zone(x, y, square_size)) = 0

WhitenessAbove(c, x, y, square_size) ==
    FracGreater(WhiteRatio(c, Zone(x, y, square_size))[1],
                WhiteRatio(c, Zone(x, y, square_size))[2],
                Theta(c, square_size), 100)

WhitenessBelow(c, x, y, square_size) ==
    FracGreater(Theta(c, square_size), 100,
                WhiteRatio(c, Zone(x, y, square_size))[1],
                WhiteRatio(c, Zone(x, y, square_size))[2])

\* Some candidate of the grid passes test(c, x, y, s).
SomeCandidate(c, test(_, _, _, _)) ==
    \E square_size \in GridSizes(c) :
        \E y \in RangeUp(c.image.height - square_size, ScanStep(c, square_size)) :
            \E x \in RangeUp(c.image.width - square_size, ScanStep(c, square_size)) :
                test(c, x, y, square_size)

CleanAbove(c, x, y, square_size) ==
    NoForbiddenPixel(c, x, y, square_size) /\ WhitenessAbove(c, x, y, square_size)

CleanAtLeast(c, x, y, square_size) ==
    NoForbiddenPixel(c, x, y, square_size) /\ ~WhitenessBelow(c, x, y, square_size)

CleanAtTheta(c, x, y, square_size) ==
    /\ NoForbiddenPixel(c, x, y, square_size)
    /\ ~WhitenessBelow(c, x, y, square_size)
    /\ ~WhitenessAbove(c, x, y, square_size)

AfterScan(c) == c.pc \in {"refine", "T1"} /\ Preconditions(c)

AcceptedAtThetaOrAbove ==
    \A t \in Threads :
        AfterScan(call[t]) =>
            /\ call[t].best_position # None <=> SomeCandidate(call[t], CleanAtLeast)
            /\ call[t].best_position # None =>
                   /\ OnGrid(call[t], call[t].best_position.x, call[t].best_position.y,
                             call[t].best_position.size)
                   /\ CleanAtLeast(call[t], call[t].best_position.x,
                                   call[t].best_position.y, call[t].best_position.size)

AcceptedAboveTheta ==
    \A t \in Threads :
        AfterScan(call[t]) =>
            /\ call[t].best_position # None <=> SomeCandidate(call[t], CleanAbove)
            /\ call[t].best_position # None =>
                   /\ OnGrid(call[t], call[t].best_position.x, call[t].best_position.y,
                             call[t].best_position.size)
                   /\ CleanAbove(call[t], call[t].best_position.x,
                                 call[t].best_position.y, call[t].best_position.size)

AcceptedAboveThetaWitness ==
    \E t \in Threads :
        /\ AfterScan(call[t])
        /\ call[t].best_position = None
        /\ CleanAtTheta(call[t], 0, 0, 320)
        /\ OnGrid(call[t], 0, 0, 320)

\* C19: early termination.  The primary scan goes through the sizes from the
\* largest to the smallest and, at each size, through the rows from the top
\* and through each row from the left; the first candidate it accepts with a
\* stamp of stamp_size_max is the one returned, and nothing after it in that
\* order is examined: the x, y and size loops all stop there.
GridOf(c, square_size) ==
    RangeUp(c.image.height - square_size, ScanStep(c, square_size))
        \X RangeUp(c.image.width - square_size, ScanStep(c, square_size))

\* The candidates <<s, y, x>> that come before (x, y, square_size).
Earlier(c, x, y, square_size) ==
    UNION {{<<s, p[1], p[2]>> : p \in GridOf(c, s)} :
               s \in {g \in GridSizes(c) : g > square_size}}
        \cup {<<square_size, p[1], p[2]>> :
                  p \in {q \in GridOf(c, square_size) :
                             q[1] < y \/ (q[1] = y /\ q[2] < x)}}

FoundLargestStamp(c) ==
    /\ c.pc \in {"refine", "done"}
    /\ c.tier \in {NoName, "PRIMARY"}
    /\ c.best_position # None
    /\ c.best_position.stamp_size = c.stamp_size_max

FromPrimary(c) == Done(c) /\ Preconditions(c) /\ c.tier = "PRIMARY"

\* Some candidate of the grid with a stamp larger than `stamp` passes test.
LargerStamp(c, stamp, test(_, _, _, _)) ==
    \E square_size \in {g \in GridSizes(c) : available_stamp_size(c, g) > stamp} :
        \E p \in GridOf(c, square_size) : test(c, p[2], p[1], square_size)

\* As first stated: a candidate whose whiteness is theta itself counts as clean.
LargestStampAtThetaOrAbove ==
    \A t \in Threads :
        FromPrimary(call[t]) =>
            ~LargerStamp(call[t], call[t].result.stamp_size, CleanAtLeast)

LargestStampReturned ==
    \A t \in Threads :
        FromPrimary(call[t]) =>
            ~LargerStamp(call[t], call[t].result.stamp_size, CleanAbove)

\* The stamp returned is not the largest there is, and the grid has a clean
\* candidate with a smaller stamp that the scan came to after it.
LargestStampReturnedWitness ==
    \E t \in Threads :
        /\ FromPrimary(call[t])
        /\ call[t].result.stamp_size < call[t].stamp_size_max
        /\ \E square_size \in {g \in GridSizes(call[t]) : g < call[t].result.size} :
               \E p \in GridOf(call[t], square_size) :
                   CleanAbove(call[t], p[2], p[1], square_size)

\* C21: tie-breaking in the primary tier.  Among the clean candidates of the
\* grid that have the size of the zone returned, the one returned has the
\* smallest y and, among those, the smallest x; among the sizes that give the
\* same stamp (310 to 410 all give 300) the largest one that has a clean
\* candidate is taken, whatever y and x a smaller one offers.
SameStampSizes(c) ==
    {g \in GridSizes(c) : available_stamp_size(c, g) = c.result.stamp_size}

\* Some candidate of size square_size above (x, y), or left of it in its row,
\* passes test.
AboveOrLeft(c, x, y, square_size, test(_, _, _, _)) ==
    \E v \in {w \in RangeUp(c.image.height - square_size, ScanStep(c, square_size)) :
                  w <= y} :
        \E u \in RangeUp(c.image.width - square_size, ScanStep(c, square_size)) :
            (v < y \/ u < x) /\ test(c, u, v, square_size)

\* As first stated: over every size that gives the stamp returned.
TopLeftOfEqualStamp ==
    \A t \in Threads :
        FromPrimary(call[t]) =>
            \A g \in SameStampSizes(call[t]) :
                ~AboveOrLeft(call[t], call[t].result.x, call[t].result.y, g, CleanAbove)

TopLeftOfLargestSize ==
    \A t \in Threads :
        FromPrimary(call[t]) =>
            /\ ~AboveOrLeft(call[t], call[t].result.x, call[t].result.y,
                            call[t].result.size, CleanAbove)
            /\ \A g \in {s \in SameStampSizes(call[t]) : s > call[t].result.size} :
                   \A p \in GridOf(call[t], g) : ~CleanAbove(call[t], p[2], p[1], g)

\* The zone returned is not in the first row, and a smaller size with the
\* same stamp has a clean candidate above it.
TopLeftOfLargestSizeWitness ==
    \E t \in Threads :
        /\ FromPrimary(call[t])
        /\ call[t].result.y > 0
        /\ \E g \in {s \in SameStampSizes(call[t]) : s < call[t].result.size} :
               AboveOrLeft(call[t], call[t].result.x, call[t].result.y, g, CleanAbove)

\* C22: a zone returned by PRIMARY, T1, T2 or T3a is clean: the forbidden
\* mask has no set pixel in [x, x + zone) x [y, y + zone) and at least 95 % of
\* the pixels there are white.  Only T3b and T4 may return a zone that holds
\* forbidden pixels.
StrictTiers == {"PRIMARY", "T1", "T2", "T3a"}

ZoneOf(c) == Zone(c.result.x, c.result.y, c.result.size)

WhiteAtLeast(c, roi, pct) ==
    ~FracGreater(pct, 100, WhiteRatio(c, roi)[1], WhiteRatio(c, roi)[2])

StrictTiersClean ==
    \A t \in Threads :
        Done(call[t]) =>
            /\ call[t].tier \in StrictTiers =>
                   /\ InPage(call[t], call[t].result.x, call[t].result.y,
                             call[t].result.size)
                   /\ CountNonZero(call[t].forbidden_mask, ZoneOf(call[t])) = 0
                   /\ WhiteAtLeast(call[t], ZoneOf(call[t]), fallback_white_threshold)
            /\ CountNonZero(call[t].forbidden_mask, ZoneOf(call[t])) > 0 =>
                   call[t].tier \in {"T3b", "T4"}

\* A fallback tier has returned a zone that lies against the forbidden
\* pixels of a page with ink.
StrictTiersCleanWitness ==
    \E t \in Threads :
        /\ Done(call[t])
        /\ call[t].tier \in {"T1", "T2"}
        /\ CountNonZero(call[t].forbidden_mask,
                        Zone(call[t].result.x - 1, call[t].result.y,
                             call[t].result.size)) > 0

\* The in-page candidates of the emergency corners, as <<x, y, zone>>, whose
\* stamp is at least stamp_size_min.
SeqRange(q) == {q[i] : i \in 1..Len(q)}

EmergencyCandidates(c) ==
    {<<CornerX(base, square_size), CornerY(base, square_size), square_size>> :
        base \in SeqRange(emergency_positions_base(c)),
        square_size \in {g \in SeqRange(search_sizes_to_try(c)) :
                            available_stamp_size(c, g) >= c.stamp_size_min}}

EmergencyInPage(c) == {z \in EmergencyCandidates(c) : InPage(c, z[1], z[2], z[3])}

\* The acceptance rule as stated: at most overlap_budget_final of the zone's
\* pixels are forbidden and at least 90 % of them are white.
WithinPixelBudget(c, z) ==
    /\ 100 * CountNonZero(c.forbidden_mask, Zone(z[1], z[2], z[3]))
           <= MAX_ALLOWED_OVERLAP * z[3] * z[3]
    /\ WhiteAtLeast(c, Zone(z[1], z[2], z[3]), relaxed_white_threshold)

\* C23: T3b accepts a corner candidate exactly when at most 10 % of the
\* zone's pixels are forbidden and its whiteness is at least 0.90: a call that
\* T3b answers returns such a zone, and a call that goes on to the forced
\* placement had no such candidate among the emergency corners.
OverlapBudgetInPixels ==
    \A t \in Threads :
        Done(call[t]) /\ Preconditions(call[t]) =>
            /\ call[t].tier = "T3b" =>
                   WithinPixelBudget(call[t], <<call[t].result.x, call[t].result.y,
                                               call[t].result.size>>)
            /\ call[t].tier = "T4" =>
                   \A z \in EmergencyInPage(call[t]) : ~WithinPixelBudget(call[t], z)

\* The candidates T3b accepts.
OverlapAccepted(c) ==
    {z \in EmergencyInPage(c) : OverlapAccepts(c, z[1], z[2], z[3])}

OverlapOf(c, z) == ForbiddenRatio(c, Zone(z[1], z[2], z[3]), z[3])

WhitenessOf(c, z) == WhiteRatio(c, Zone(z[1], z[2], z[3]))

\* z comes before r in the order (stamp descending, overlap ascending,
\* whiteness descending).
RanksBefore(c, z, r) ==
    \/ available_stamp_size(c, z[3]) > available_stamp_size(c, r[3])
    \/ /\ available_stamp_size(c, z[3]) = available_stamp_size(c, r[3])
       /\ \/ RatioGreater(OverlapOf(c, r), OverlapOf(c, z))
          \/ /\ OverlapOf(c, r)[1] * OverlapOf(c, z)[2] = OverlapOf(c, z)[1] * OverlapOf(c, r)[2]
             /\ RatioGreater(WhitenessOf(c, z), WhitenessOf(c, r))

ResultZone(c) == <<c.result.x, c.result.y, c.result.size>>

\* C24: the zone T3b returns is one of the candidates it accepts, and no
\* accepted candidate has a larger stamp, nor the same stamp with less
\* overlap, nor the same stamp and overlap with a higher whiteness.
OverlapBestReturned ==
    \A t \in Threads :
        Done(call[t]) /\ call[t].tier = "T3b" =>
            /\ ResultZone(call[t]) \in OverlapAccepted(call[t])
            /\ call[t].result.stamp_size = available_stamp_size(call[t], call[t].result.size)
            /\ \A z \in OverlapAccepted(call[t]) :
                   ~RanksBefore(call[t], z, ResultZone(call[t]))

\* T3b has returned a zone with forbidden pixels in it although another
\* accepted candidate of the same stamp is whiter: that one has more overlap.
OverlapBestReturnedWitness ==
    \E t \in Threads :
        /\ Done(call[t]) /\ call[t].tier = "T3b"
        /\ OverlapOf(call[t], ResultZone(call[t]))[1] > 0
        /\ \E z \in OverlapAccepted(call[t]) :
               /\ available_stamp_size(call[t], z[3]) = call[t].result.stamp_size
               /\ RatioGreater(WhitenessOf(call[t], z),
                               WhitenessOf(call[t], ResultZone(call[t])))
               /\ RatioGreater(OverlapOf(call[t], z), OverlapOf(call[t], ResultZone(call[t])))

\* The page holds a zone of square_size with its offset on every side.
HoldsWithOffset(c, square_size) ==
    /\ c.image.width >= square_size + 2 * forced_offset
    /\ c.image.height >= square_size + 2 * forced_offset

\* Every base point of the list gives a zone of square_size inside the page.
AnchorsInPage(c, bases, square_size) ==
    \A base \in SeqRange(bases) :
        InPage(c, CornerX(base, square_size), CornerY(base, square_size), square_size)

\* C25: on a page that holds the zone with its offset, every anchor of a
\* fallback tier that has run gives a candidate inside the page: the seven
\* of T1, the six of T2 and the four emergency corners of T3a and T3b.
EveryAnchorInPage ==
    \A t \in Threads :
        Done(call[t]) /\ Preconditions(call[t]) =>
            /\ call[t].tier \in {"T1", "T2", "T3a", "T3b", "T4"} =>
                   \A g \in {k \in SeqRange(fallback_sizes(call[t])) :
                                HoldsWithOffset(call[t], k)} :
                       AnchorsInPage(call[t], corner_positions_base(call[t]), g)
            /\ call[t].tier \in {"T2", "T3a", "T3b", "T4"} =>
                   \A g \in {k \in SeqRange(fallback_sizes(call[t])) :
                                HoldsWithOffset(call[t], k)} :
                       AnchorsInPage(call[t], fallback_positions_base(call[t]), g)
            /\ call[t].tier \in {"T3a", "T3b", "T4"} =>
                   \A g \in {k \in SeqRange(search_sizes_to_try(call[t])) :
                                HoldsWithOffset(call[t], k)} :
                       AnchorsInPage(call[t], emergency_positions_base(call[t]), g)

\* The positions the refinement visits around the candidate of the scan.
RefineWindow(c) ==
    LET best == c.best_position
        around == (0 - refine_radius) .. refine_radius
    IN  {p \in {<<best.x + dx, best.y + dy>> : dx \in around, dy \in around} :
            /\ p[1] >= 0 /\ p[1] < c.image.width - best.size
            /\ p[2] >= 0 /\ p[2] < c.image.height - best.size
            /\ (p[1] - Max(0, best.x - refine_radius)) % fine_step = 0
            /\ (p[2] - Max(0, best.y - refine_radius)) % fine_step = 0}

\* C27: the refinement never changes the result: what the primary tier
\* returns is the candidate of the coarse scan, with its x, y, zone and stamp.
RefinementKeepsCandidate ==
    \A t \in Threads :
        Done(call[t]) /\ call[t].tier = "PRIMARY" =>
            /\ call[t].best_position # None
            /\ call[t].result = Placement(call[t].best_position.x, call[t].best_position.y,
                                          call[t].best_position.size,
                                          call[t].best_position.stamp_size)

\* The primary tier has returned although the refinement passed another
\* position of its window, below the largest stamp too.
RefinementKeepsCandidateWitness ==
    \E t \in Threads :
        /\ Done(call[t]) /\ call[t].tier = "PRIMARY"
        /\ call[t].result.stamp_size < call[t].stamp_size_max
        /\ \E p \in RefineWindow(call[t]) :
               /\ p # <<call[t].best_position.x, call[t].best_position.y>>
               /\ RefineAccepts(call[t], p[1], p[2], call[t].best_position.size)

\* The upper right candidate of the smallest zone size, with its offset.
SmallestUpperRight(c) ==
    <<c.image.width - min_zone_size(c) - forced_offset, forced_offset, min_zone_size(c)>>

HoldsForced(c) ==
    /\ c.image.width >= min_zone_size(c) + forced_offset
    /\ c.image.height >= min_zone_size(c) + forced_offset

HasReturned(r) == r.pc = "returned"

Answered(r) == HasReturned(r) /\ r.response.code = "OK"

\* C26: once ProcessPDF has returned, with the stamped PDF or with an
\* INTERNAL error, no temporary file of the request exists any more: neither
\* the downloaded PDF, nor the stamp, nor a page's PNG, nor the one-page PDF,
\* nor the final PDF.
TempFilesRemoved ==
    \A t \in Threads :
        HasReturned(request[t]) => {f \in tmp_files : f.thread = t} = {}

\* C29: whatever order the page tasks end in, the PDF of the response holds
\* the pages in ascending order, each once, and the i-th coordinates are
\* those computed for page i.
PagesInOrder ==
    \A t \in Threads :
        Answered(request[t]) =>
            /\ request[t].response.processed_pdf =
                   [i \in 1 .. Min(request[t].num_pages, TrackedPages) |-> i]
            /\ Len(request[t].response.coordinates) = Cardinality(request[t].page_args)
            /\ \A i \in request[t].page_args :
                   /\ request[t].response.coordinates[i].page_number = i
                   /\ request[t].response.coordinates[i].coord = request[t].futures[i].coords
                   /\ request[t].response.coordinates[i].coord.page = i

\* A request was answered whose last page ended first.
PagesInOrderWitness ==
    \E t \in Threads :
        /\ Answered(request[t])
        /\ Len(request[t].finished) > 1
        /\ request[t].finished[1] = Len(request[t].finished)

\* The DPI a document is to be rasterized at.
DocumentDpi(r) == IF r.stamp_only_first_page THEN 200 ELSE adaptive_dpi(r.num_pages)

\* C30: every page of a document is rasterized at the DPI of that document
\* (200 up to 20 pages, 150 from 21 to 300, 120 above, and 200 when only
\* the first page is stamped), whatever the other requests of the processor
\* are or were.
DpiFixedByDocument ==
    \A t \in Threads :
        request[t].pc # "idle" =>
            \A p \in DOMAIN request[t].dpi :
                request[t].dpi[p] # 0 => request[t].dpi[p] = DocumentDpi(request[t])
====
